---- MODULE Spec2Model ----
(***************************************************************************)
(* Verification models of the example programs of advancedcpp/library.     *)
(* The repository is a set of independent programs; each program has its   *)
(* own variables, its own initial condition and its own specification.     *)
(* In the specification of one program the variables of the other programs *)
(* stay at their initial values.                                           *)
(***************************************************************************)
EXTENDS Integers, Sequences, FiniteSets, TLC

VARIABLES
    \* code/thread/number_sequence.cpp
    counter,      \* int counter
    mtx,          \* std::mutex mtx: 0 when free, else the thread that owns it
    cv,           \* std::condition_variable cv: the threads blocked in wait
    nsPc,         \* position of thread 1 (printOddNumber) and 2 (printEvenNumbers)
    nsI,          \* the loop variable i of each thread
    output,       \* the lines written to std::cout: <<thread, number>>
    nsMain        \* position of main

VARIABLES
    \* the condition-variable example (print_id / go)
    ready,        \* bool ready
    cvMtx,        \* std::mutex mtx: -1 when free, else the thread that owns it
    cvBlocked,    \* std::condition_variable cv: the threads blocked in wait
    cvPc,         \* position of each print_id thread
    cvOut,        \* the ids written to std::cout, in order
    cvMain,       \* position of main (go() runs on the main thread)
    cvK           \* main's loop index (thread being created or joined)

VARIABLES
    \* the character driver (dev_open / dev_close)
    device_open,  \* static int device_open
    drvPc,        \* position of each process that uses the device
    drvRet        \* what each process's last dev_open returned

VARIABLES
    \* the std::atomic example (increment / main)
    atCounter,    \* std::atomic<int> counter
    atPc,         \* position of threads t1 and t2
    atI,          \* the loop variable i of each thread
    atMain        \* position of main

VARIABLES
    \* code/threading/thread_pool.cpp
    workers,      \* std::vector<std::thread> workers: the joinable worker threads
    tpPc,         \* position of each worker thread
    tpLines,      \* lines each worker has printed (counted up to tpMaxLines)
    tpMain        \* position of main

VARIABLES
    \* the command-line calculator (calculate / main)
    argc,         \* number of command-line arguments
    argv,         \* argv[1..3]; "NULL" past the arguments given
    calcPc,       \* position of main
    calcNums,     \* num1 and num2 once std::stod has parsed them
    calcRes,      \* what calculate returned or threw
    calcExc,      \* the exception thrown inside main's try block
    calcOut,      \* lines written to std::cout
    calcErr,      \* lines written to std::cerr
    calcExit      \* main's return value

VARIABLES
    \* the console task manager (TaskManager / main)
    tasks,        \* map<int, Task> tasks: ID -> [description, dueDate, isCompleted]
    nextTaskID,   \* int nextTaskID
    file,         \* tasks.txt: whether it exists, and its text
    tmPc,         \* "running", or "aborted" after an uncaught exception
    tmRun         \* how many times the program has been started

VARIABLES
    \* the Observer pattern example (WeatherStation / WeatherDisplay)
    observers,    \* std::vector<Observer*> observers
    weatherData,  \* std::string weatherData
    obsUpdates,   \* the update(data) calls of the latest notify(): <<observer, data>>
    obsCalls      \* the calls made on the WeatherStation so far, in order

VARIABLES
    \* the Flyweight pattern example (FlyweightFactory)
    characterPool, \* std::map<char, Character*> characterPool: char -> object
    fwHeap,       \* the ConcreteCharacter objects created by new: object i holds fwHeap[i]
    fwReturned    \* the getCharacter calls so far: <<c, object returned>>

VARIABLES
    \* the event processing example (EventProcessor)
    eventQueue,   \* std::queue<std::string> eventQueue
    processedEvents, \* std::unordered_map<int, std::string> processedEvents
    epOut         \* the lines written to std::cout: <<kind, event>>

VARIABLES
    \* the parallel map example (parallelMap / main)
    pmInput,      \* const std::vector<T>& input
    pmOutput,     \* std::vector<T>& output
    pmHw,         \* what std::thread::hardware_concurrency() returns
    pmPc,         \* position of parallelMap
    pmChunk,      \* numThreads and chunkSize once computed
    pmThreads,    \* std::vector<std::thread> threads: start, end, index, i and state of each
    pmK           \* loop index of the creating and of the joining loop

VARIABLES
    \* the RabbitMQ / PostgreSQL producer and consumer
    mqQueue,      \* messages in task_queue, each tagged with the producer run that published it
    mqRows,       \* table messages: row id is the index (SERIAL), with the run that inserted it and its status
    mqRun,        \* number of the current producer run
    mqProdPc,     \* position of the producer
    mqConsPc,     \* position of the consumer
    mqEnv,        \* envelope: the message the consumer is processing
    mqReceived,   \* runs whose message the consumer has received
    mqHandled     \* runs whose message the consumer finished processing while its row existed

VARIABLES
    \* the FTP client (number_order.md)
    ftpPc,        \* position of main / ftp_download_file
    ftpOpen,      \* socket descriptors the process has open
    control_sockfd, \* control connection of main
    data_sockfd,  \* data connection of ftp_download_file
    ftpReply,     \* port1, port2 of the server's reply to PASV
    data_port,    \* port parsed out of the reply
    ftpRemote,    \* chunks of the remote file the server still has to send
    ftpFile,      \* local file: whether it is open, and the bytes written
    ftpExit       \* return value of main

VARIABLES
    \* the SDL drag example (use-case.md, main)
    rect,         \* Rectangle rect: x, y, w, h
    quit,         \* bool quit
    sdlLeft,      \* whether the left mouse button is held down
    sdlDragging,  \* whether the left button is held since a press inside the rectangle
    sdlEvents     \* number of events handled so far

VARIABLES
    \* Dijkstra's algorithm (graph-implementtation.md)
    dijAdjList,   \* vector<vector<pair<int, int>>> adjList: (node, weight) in addEdge order
    dijStart,     \* int start
    dist,         \* vector<int> dist
    pq,           \* priority_queue of (distance, vertex), smallest first
    dijPc         \* position of dijkstra

VARIABLES
    \* breadth-first search (graph-implementtation.md)
    bfsAdjList,   \* vector<list<int>> adjList
    bfsStart,     \* int start
    visited,      \* vector<bool> visited
    bfsQ,         \* queue<int> q
    bfsOut,       \* the vertices printed, in order
    bfsPc         \* position of BFS

VARIABLES
    \* Kruskal's algorithm (graph-implementtation.md)
    edges,        \* vector<pair<int, pair<int, int>>> edges: (weight, (u, v))
    parent,       \* int parent[V]
    rank,         \* int rank[V]
    mst,          \* the edges kruskal has chosen
    kruK,         \* how many edges the loop has looked at
    kruPc         \* position of kruskal

VARIABLES
    \* the Qt task manager window (part_004, TaskManagerWindow)
    qtTasks,      \* map<int, Task> tasks
    qtNextTaskID, \* int nextTaskID
    taskInput,    \* text of the QLineEdit
    taskListWidget, \* texts of the rows of the QListWidget
    currentRow    \* taskListWidget->currentRow(), -1 when no row is current

VARIABLES
    \* the meal builder (project.md, MealDirector)
    mbMeal,       \* Meal meal of veggieBuilder and of nonVeggieBuilder
    builder,      \* MealBuilder* builder of the director, "none" before setBuilder
    mbReturned    \* the builder used and the Meal returned by each prepareMeal call

nsVars == <<counter, mtx, cv, nsPc, nsI, output, nsMain>>
cvVars == <<ready, cvMtx, cvBlocked, cvPc, cvOut, cvMain, cvK>>
drvVars == <<device_open, drvPc, drvRet>>
atVars == <<atCounter, atPc, atI, atMain>>
tpVars == <<workers, tpPc, tpLines, tpMain>>
calcVars == <<argc, argv, calcPc, calcNums, calcRes, calcExc, calcOut, calcErr, calcExit>>
tmVars == <<tasks, nextTaskID, file, tmPc, tmRun>>
obsVars == <<observers, weatherData, obsUpdates, obsCalls>>
fwVars == <<characterPool, fwHeap, fwReturned>>
epVars == <<eventQueue, processedEvents, epOut>>
pmVars == <<pmInput, pmOutput, pmHw, pmPc, pmChunk, pmThreads, pmK>>
mqVars == <<mqQueue, mqRows, mqRun, mqProdPc, mqConsPc, mqEnv, mqReceived, mqHandled>>
ftpVars == <<ftpPc, ftpOpen, control_sockfd, data_sockfd, ftpReply, data_port, ftpRemote, ftpFile, ftpExit>>
sdlVars == <<rect, quit, sdlLeft, sdlDragging, sdlEvents>>
dijVars == <<dijAdjList, dijStart, dist, pq, dijPc>>
bfsVars == <<bfsAdjList, bfsStart, visited, bfsQ, bfsOut, bfsPc>>
kruVars == <<edges, parent, rank, mst, kruK, kruPc>>
qtVars == <<qtTasks, qtNextTaskID, taskInput, taskListWidget, currentRow>>
mbVars == <<mbMeal, builder, mbReturned>>

vars == <<nsVars, cvVars, drvVars, atVars, tpVars, calcVars, tmVars, obsVars, fwVars, epVars, pmVars, mqVars, ftpVars, sdlVars, dijVars, bfsVars, kruVars, qtVars, mbVars>>

nsOthers == <<cvVars, drvVars, atVars, tpVars, calcVars, tmVars, obsVars, fwVars, epVars, pmVars, mqVars, ftpVars, sdlVars, dijVars, bfsVars, kruVars, qtVars, mbVars>>
cvOthers == <<nsVars, drvVars, atVars, tpVars, calcVars, tmVars, obsVars, fwVars, epVars, pmVars, mqVars, ftpVars, sdlVars, dijVars, bfsVars, kruVars, qtVars, mbVars>>
drvOthers == <<nsVars, cvVars, atVars, tpVars, calcVars, tmVars, obsVars, fwVars, epVars, pmVars, mqVars, ftpVars, sdlVars, dijVars, bfsVars, kruVars, qtVars, mbVars>>
atOthers == <<nsVars, cvVars, drvVars, tpVars, calcVars, tmVars, obsVars, fwVars, epVars, pmVars, mqVars, ftpVars, sdlVars, dijVars, bfsVars, kruVars, qtVars, mbVars>>
tpOthers == <<nsVars, cvVars, drvVars, atVars, calcVars, tmVars, obsVars, fwVars, epVars, pmVars, mqVars, ftpVars, sdlVars, dijVars, bfsVars, kruVars, qtVars, mbVars>>
calcOthers == <<nsVars, cvVars, drvVars, atVars, tpVars, tmVars, obsVars, fwVars, epVars, pmVars, mqVars, ftpVars, sdlVars, dijVars, bfsVars, kruVars, qtVars, mbVars>>
tmOthers == <<nsVars, cvVars, drvVars, atVars, tpVars, calcVars, obsVars, fwVars, epVars, pmVars, mqVars, ftpVars, sdlVars, dijVars, bfsVars, kruVars, qtVars, mbVars>>
obsOthers == <<nsVars, cvVars, drvVars, atVars, tpVars, calcVars, tmVars, fwVars, epVars, pmVars, mqVars, ftpVars, sdlVars, dijVars, bfsVars, kruVars, qtVars, mbVars>>
fwOthers == <<nsVars, cvVars, drvVars, atVars, tpVars, calcVars, tmVars, obsVars, epVars, pmVars, mqVars, ftpVars, sdlVars, dijVars, bfsVars, kruVars, qtVars, mbVars>>
epOthers == <<nsVars, cvVars, drvVars, atVars, tpVars, calcVars, tmVars, obsVars, fwVars, pmVars, mqVars, ftpVars, sdlVars, dijVars, bfsVars, kruVars, qtVars, mbVars>>
pmOthers == <<nsVars, cvVars, drvVars, atVars, tpVars, calcVars, tmVars, obsVars, fwVars, epVars, mqVars, ftpVars, sdlVars, dijVars, bfsVars, kruVars, qtVars, mbVars>>
mqOthers == <<nsVars, cvVars, drvVars, atVars, tpVars, calcVars, tmVars, obsVars, fwVars, epVars, pmVars, ftpVars, sdlVars, dijVars, bfsVars, kruVars, qtVars, mbVars>>
ftpOthers == <<nsVars, cvVars, drvVars, atVars, tpVars, calcVars, tmVars, obsVars, fwVars, epVars, pmVars, mqVars, sdlVars, dijVars, bfsVars, kruVars, qtVars, mbVars>>
sdlOthers == <<nsVars, cvVars, drvVars, atVars, tpVars, calcVars, tmVars, obsVars, fwVars, epVars, pmVars, mqVars, ftpVars, dijVars, bfsVars, kruVars, qtVars, mbVars>>
dijOthers == <<nsVars, cvVars, drvVars, atVars, tpVars, calcVars, tmVars, obsVars, fwVars, epVars, pmVars, mqVars, ftpVars, sdlVars, bfsVars, kruVars, qtVars, mbVars>>
bfsOthers == <<nsVars, cvVars, drvVars, atVars, tpVars, calcVars, tmVars, obsVars, fwVars, epVars, pmVars, mqVars, ftpVars, sdlVars, dijVars, kruVars, qtVars, mbVars>>
kruOthers == <<nsVars, cvVars, drvVars, atVars, tpVars, calcVars, tmVars, obsVars, fwVars, epVars, pmVars, mqVars, ftpVars, sdlVars, dijVars, bfsVars, qtVars, mbVars>>
qtOthers == <<nsVars, cvVars, drvVars, atVars, tpVars, calcVars, tmVars, obsVars, fwVars, epVars, pmVars, mqVars, ftpVars, sdlVars, dijVars, bfsVars, kruVars, mbVars>>
mbOthers == <<nsVars, cvVars, drvVars, atVars, tpVars, calcVars, tmVars, obsVars, fwVars, epVars, pmVars, mqVars, ftpVars, sdlVars, dijVars, bfsVars, kruVars, qtVars>>

\* bounds of the models
cvNumThreads == 3      \* print_id threads created by main (the program creates 10)

drvNumProcs == 3       \* processes that open and close the device
atIterations == 25     \* iterations of the loop of increment (the program runs 1000)

tpMaxLines == 2        \* lines of one worker that the model counts
calcMaxNum == 2        \* the numbers on the command line are -calcMaxNum..calcMaxNum

tmMaxID == 3           \* addTask is modelled while nextTaskID <= tmMaxID
tmMaxRuns == 2         \* starts of the task manager that the model follows


obsNumObservers == 2   \* WeatherDisplay objects
obsMaxCalls == 4       \* calls on the WeatherStation that the model follows


fwMaxCalls == 4        \* getCharacter calls that the model follows


epMaxLines == 5        \* lines of output of the EventProcessor that the model follows


pmMaxLen == 4          \* longest input vector given to parallelMap
pmMaxHw == 3           \* largest value of std::thread::hardware_concurrency()


mqMaxRuns == 3         \* number of times the producer is run


ftpMaxChunks == 3      \* most recv() calls that return data


sdlMaxEvents == 4      \* events polled before the window is closed


INT_MAX == 15          \* largest int (a 5-bit int stands for the 32-bit one)
dijV == 3              \* number of vertices of the graphs given to dijkstra


bfsV == 3              \* number of vertices of the graphs given to BFS


kruV == 4              \* number of vertices of the graphs given to kruskal


qtMaxID == 3           \* addTask is modelled while nextTaskID <= qtMaxID


mbMaxCalls == 5        \* prepareMeal calls that the model follows

-----------------------------------------------------------------------------
(* initial values of each program's variables                              *)

\* an empty std::map
tmNoTasks == <<>>

\* TaskManager() : nextTaskID(1) {}, and no tasks.txt yet
tmIdle ==
    /\ tasks = tmNoTasks
    /\ nextTaskID = 1
    /\ file = [exists |-> FALSE, text |-> <<>>]
    /\ tmPc = "running"
    /\ tmRun = 1

\* ThreadPool pool(4);
tpNumThreads == 4

tpWorkers == 1..tpNumThreads

tpIdle ==
    /\ workers = <<>>
    /\ tpPc = [w \in tpWorkers |-> "unstarted"]
    /\ tpLines = [w \in tpWorkers |-> 0]
    /\ tpMain = "construct"

calcNoNums == [num1 |-> 0, num2 |-> 0]
calcNoRes == [kind |-> "none"]

calcIdle ==
    /\ argc = 4
    /\ argv = <<"1", "+", "1">>
    /\ calcPc = "exited"
    /\ calcNums = calcNoNums
    /\ calcRes = calcNoRes
    /\ calcExc = calcNoRes
    /\ calcOut = <<>>
    /\ calcErr = <<>>
    /\ calcExit = 0

drvProcs == 1..drvNumProcs

drvIdle ==
    /\ device_open = 0
    /\ drvPc = [p \in drvProcs |-> "closed"]
    /\ drvRet = [p \in drvProcs |-> "none"]

atThreads == {1, 2}

atIdle ==
    /\ atCounter = 0
    /\ atPc = [t \in atThreads |-> "unstarted"]
    /\ atI = [t \in atThreads |-> 0]
    /\ atMain = "t1"

cvThreads == 0..(cvNumThreads - 1)

cvIdle ==
    /\ ready = FALSE
    /\ cvMtx = -1
    /\ cvBlocked = {}
    /\ cvPc = [t \in cvThreads |-> "unstarted"]
    /\ cvOut = <<>>
    /\ cvMain = "create"
    /\ cvK = 0


\* WeatherStation weatherStation; (no observer, empty weatherData)
obsIdle ==
    /\ observers = <<>>
    /\ weatherData = ""
    /\ obsUpdates = <<>>
    /\ obsCalls = <<>>


\* FlyweightFactory factory; (an empty pool, nothing allocated)
fwIdle ==
    /\ characterPool = <<>>
    /\ fwHeap = <<>>
    /\ fwReturned = <<>>


\* EventProcessor processor; (empty queue, empty map, nothing printed)
epIdle ==
    /\ eventQueue = <<>>
    /\ processedEvents = <<>>
    /\ epOut = <<>>


\* before parallelMap is called
pmIdle ==
    /\ pmInput = <<>>
    /\ pmOutput = <<>>
    /\ pmHw = 1
    /\ pmPc = "returned"
    /\ pmChunk = [numThreads |-> 0, chunkSize |-> 0]
    /\ pmThreads = <<>>
    /\ pmK = 0


\* broker and database up, table empty, no producer or consumer running
mqIdle ==
    /\ mqQueue = <<>>
    /\ mqRows = <<>>
    /\ mqRun = 0
    /\ mqProdPc = "exited"
    /\ mqConsPc = "exited"
    /\ mqEnv = 0
    /\ mqReceived = {}
    /\ mqHandled = {}


\* before main runs
ftpIdle ==
    /\ ftpPc = "exited"
    /\ ftpOpen = {}
    /\ control_sockfd = -1
    /\ data_sockfd = -1
    /\ ftpReply = <<0, 0>>
    /\ data_port = 0
    /\ ftpRemote = 0
    /\ ftpFile = [open |-> FALSE, bytes |-> 0]
    /\ ftpExit = 0


\* before the main loop runs
sdlIdle ==
    /\ rect = [x |-> 0, y |-> 0, w |-> 0, h |-> 0]
    /\ quit = TRUE
    /\ sdlLeft = FALSE
    /\ sdlDragging = FALSE
    /\ sdlEvents = 0


\* before dijkstra is called
dijIdle ==
    /\ dijAdjList = <<>>
    /\ dijStart = 0
    /\ dist = <<>>
    /\ pq = {}
    /\ dijPc = "done"


\* before BFS is called
bfsIdle ==
    /\ bfsAdjList = <<>>
    /\ bfsStart = 0
    /\ visited = <<>>
    /\ bfsQ = <<>>
    /\ bfsOut = <<>>
    /\ bfsPc = "done"


\* before kruskal is called
kruIdle ==
    /\ edges = <<>>
    /\ parent = <<>>
    /\ rank = <<>>
    /\ mst = <<>>
    /\ kruK = 0
    /\ kruPc = "done"


\* the window as constructed
qtIdle ==
    /\ qtTasks = <<>>
    /\ qtNextTaskID = 1
    /\ taskInput = ""
    /\ taskListWidget = <<>>
    /\ currentRow = -1


\* Meal as default-constructed
mbEmptyMeal == [bread |-> "", protein |-> "", condiments |-> <<>>, drink |-> ""]

\* main before the first setBuilder
mbIdle ==
    /\ mbMeal = [b \in {"veggie", "nonVeggie"} |-> mbEmptyMeal]
    /\ builder = "none"
    /\ mbReturned = <<>>

-----------------------------------------------------------------------------
(* code/thread/number_sequence.cpp: the odd/even number printer            *)

LastNumber == 20

nsThreads == {1, 2}

nsIdle ==
    /\ counter = 1
    /\ mtx = 0
    /\ cv = {}
    /\ nsPc = [t \in nsThreads |-> "unstarted"]
    /\ nsI = [t \in nsThreads |-> t]
    /\ output = <<>>
    /\ nsMain = "t1"

\* the variables of every program but those named in own are at their initial
\* values
Pinned(own) ==
    /\ IF "ns" \in own THEN TRUE ELSE nsIdle
    /\ IF "cv" \in own THEN TRUE ELSE cvIdle
    /\ IF "drv" \in own THEN TRUE ELSE drvIdle
    /\ IF "at" \in own THEN TRUE ELSE atIdle
    /\ IF "tp" \in own THEN TRUE ELSE tpIdle
    /\ IF "calc" \in own THEN TRUE ELSE calcIdle
    /\ IF "tm" \in own THEN TRUE ELSE tmIdle
    /\ IF "obs" \in own THEN TRUE ELSE obsIdle
    /\ IF "fw" \in own THEN TRUE ELSE fwIdle
    /\ IF "ep" \in own THEN TRUE ELSE epIdle
    /\ IF "pm" \in own THEN TRUE ELSE pmIdle
    /\ IF "mq" \in own THEN TRUE ELSE mqIdle
    /\ IF "ftp" \in own THEN TRUE ELSE ftpIdle
    /\ IF "sdl" \in own THEN TRUE ELSE sdlIdle
    /\ IF "dij" \in own THEN TRUE ELSE dijIdle
    /\ IF "bfs" \in own THEN TRUE ELSE bfsIdle
    /\ IF "kru" \in own THEN TRUE ELSE kruIdle
    /\ IF "qt" \in own THEN TRUE ELSE qtIdle
    /\ IF "mb" \in own THEN TRUE ELSE mbIdle

nsInit == nsIdle /\ Pinned({"ns"})

\* the predicate of cv.wait(lock, [i]{ return counter == i; })
nsWaitPredNone(t) == TRUE
nsWaitPred(t) == counter = nsI[t]

\* cv.notify_one(): the sets of blocked threads it may wake (none when no
\* thread is blocked, otherwise exactly one of them)
nsNotifyNone(blocked) == {{}}
nsNotifyOne(blocked) == IF blocked = {} THEN {{}} ELSE {{w} : w \in blocked}

\* main: std::thread t1(printOddNumber); std::thread t2(printEvenNumbers);
nsSpawn ==
    /\ nsMain \in {"t1", "t2"}
    /\ LET t == IF nsMain = "t1" THEN 1 ELSE 2 IN
         /\ nsPc' = [nsPc EXCEPT ![t] = "for"]
         /\ nsMain' = IF nsMain = "t1" THEN "t2" ELSE "join1"
    /\ UNCHANGED <<counter, mtx, cv, nsI, output>>
    /\ UNCHANGED nsOthers

\* for (int i = ...; i <= 20; ...): the loop test
nsFor(t) ==
    /\ nsPc[t] = "for"
    /\ nsPc' = [nsPc EXCEPT ![t] = IF nsI[t] <= LastNumber THEN "lock" ELSE "done"]
    /\ UNCHANGED <<counter, mtx, cv, nsI, output, nsMain>>
    /\ UNCHANGED nsOthers

\* std::unique_lock<std::mutex> lock(mtx), and the re-lock inside cv.wait
nsLock(t) ==
    /\ nsPc[t] \in {"lock", "relock"}
    /\ mtx = 0
    /\ mtx' = t
    /\ nsPc' = [nsPc EXCEPT ![t] = "wait"]
    /\ UNCHANGED <<counter, cv, nsI, output, nsMain>>
    /\ UNCHANGED nsOthers

\* cv.wait(lock, pred): while (!pred()) wait(lock); the wait releases the
\* mutex and blocks in one atomic step
nsWait(t) ==
    /\ nsPc[t] = "wait"
    /\ IF nsWaitPred(t)
         THEN /\ nsPc' = [nsPc EXCEPT ![t] = "print"]
              /\ UNCHANGED <<mtx, cv>>
         ELSE /\ nsPc' = [nsPc EXCEPT ![t] = "blocked"]
              /\ mtx' = 0
              /\ cv' = cv \cup {t}
    /\ UNCHANGED <<counter, nsI, output, nsMain>>
    /\ UNCHANGED nsOthers

\* a spurious wake-up of a thread blocked in wait
nsSpurious(t) ==
    /\ t \in cv
    /\ cv' = cv \ {t}
    /\ nsPc' = [nsPc EXCEPT ![t] = "relock"]
    /\ UNCHANGED <<counter, mtx, nsI, output, nsMain>>
    /\ UNCHANGED nsOthers

\* std::cout << "Thread t: " << i << std::endl;
nsPrint(t) ==
    /\ nsPc[t] = "print"
    /\ output' = Append(output, <<t, nsI[t]>>)
    /\ nsPc' = [nsPc EXCEPT ![t] = "inc"]
    /\ UNCHANGED <<counter, mtx, cv, nsI, nsMain>>
    /\ UNCHANGED nsOthers

\* counter++;
nsInc(t) ==
    /\ nsPc[t] = "inc"
    /\ counter' = counter + 1
    /\ nsPc' = [nsPc EXCEPT ![t] = "notify"]
    /\ UNCHANGED <<mtx, cv, nsI, output, nsMain>>
    /\ UNCHANGED nsOthers

\* cv.notify_one();
nsNotify(t) ==
    /\ nsPc[t] = "notify"
    /\ \E W \in nsNotifyOne(cv) :
         /\ cv' = cv \ W
         /\ nsPc' = [u \in nsThreads |->
                       IF u = t THEN "unlock" ELSE IF u \in W THEN "relock" ELSE nsPc[u]]
    /\ UNCHANGED <<counter, mtx, nsI, output, nsMain>>
    /\ UNCHANGED nsOthers

\* end of the loop body: ~unique_lock releases the mutex; then i += 2
nsUnlock(t) ==
    /\ nsPc[t] = "unlock"
    /\ mtx' = 0
    /\ nsI' = [nsI EXCEPT ![t] = @ + 2]
    /\ nsPc' = [nsPc EXCEPT ![t] = "for"]
    /\ UNCHANGED <<counter, cv, output, nsMain>>
    /\ UNCHANGED nsOthers

\* main: t1.join(); t2.join(); return 0;
nsJoin ==
    /\ nsMain \in {"join1", "join2"}
    /\ nsPc[IF nsMain = "join1" THEN 1 ELSE 2] = "done"
    /\ nsMain' = IF nsMain = "join1" THEN "join2" ELSE "done"
    /\ UNCHANGED <<counter, mtx, cv, nsPc, nsI, output>>
    /\ UNCHANGED nsOthers

\* the steps of thread t that the scheduler runs (a spurious wake-up is not one)
nsThread(t) ==
    \/ nsFor(t)
    \/ nsWait(t)
    \/ nsPrint(t)
    \/ nsInc(t)
    \/ nsNotify(t)
    \/ nsUnlock(t)

nsNext ==
    \/ nsSpawn
    \/ nsJoin
    \/ \E t \in nsThreads : nsThread(t)
    \/ \E t \in nsThreads : nsLock(t)
    \/ \E t \in nsThreads : nsSpurious(t)

SpecNS == nsInit /\ [][nsNext]_vars

\* fair scheduling: every thread that can run does run, and a thread that can
\* take the mutex again and again does take it
FairSpecNS ==
    /\ SpecNS
    /\ WF_vars(nsSpawn)
    /\ WF_vars(nsJoin)
    /\ \A t \in nsThreads : WF_vars(nsThread(t))
    /\ \A t \in nsThreads : SF_vars(nsLock(t))

\* C1: the lines printed are 1, 2, ..., 20 in increasing order, each once;
\* the odd numbers by thread 1 and the even numbers by thread 2; when main
\* has joined both threads all 20 lines have been printed.
C1_OrderedOutput ==
    /\ Len(output) <= LastNumber
    /\ \A k \in 1..Len(output) : output[k] = <<IF k % 2 = 1 THEN 1 ELSE 2, k>>
    /\ nsMain = "done" => Len(output) = LastNumber

C1_Witness == nsMain = "done" /\ Len(output) = LastNumber /\ output[LastNumber] = <<2, LastNumber>>

\* C2: under fair scheduling the printer terminates: both threads finish, both
\* joins return, nobody stays blocked in cv.wait, and counter ends at 21.
C2_Terminates ==
    <>[](nsMain = "done" /\ nsPc = [t \in nsThreads |-> "done"] /\ cv = {} /\ counter = LastNumber + 1)

C2_Witness == nsMain = "done" /\ counter = LastNumber + 1 /\ cv = {} /\ mtx = 0

-----------------------------------------------------------------------------
(* the condition-variable example: print_id, go, main                      *)

cvInit == cvIdle /\ Pinned({"cv"})

\* while (!ready) ...: the loop test of print_id
cvLoopTest == ~ready

\* where print_id continues when cv.wait(lck) returns: back at the loop test
cvAfterWaitIf == "print"
cvAfterWait == "test"

\* cv.notify_all(): the set of blocked threads it wakes
cvNotifyAll(blocked) == blocked

\* main: threads[i] = std::thread(print_id, i);
cvCreate ==
    /\ cvMain = "create"
    /\ IF cvK < cvNumThreads
         THEN /\ cvPc' = [cvPc EXCEPT ![cvK] = "lock"]
              /\ cvK' = cvK + 1
              /\ UNCHANGED cvMain
         ELSE /\ cvMain' = "sleep"
              /\ UNCHANGED <<cvPc, cvK>>
    /\ UNCHANGED <<ready, cvMtx, cvBlocked, cvOut>>
    /\ UNCHANGED cvOthers

\* go: std::this_thread::sleep_for(std::chrono::seconds(1));
cvSleep ==
    /\ cvMain = "sleep"
    /\ cvMain' = "set"
    /\ UNCHANGED <<ready, cvMtx, cvBlocked, cvPc, cvOut, cvK>>
    /\ UNCHANGED cvOthers

\* go: ready = true;   (written without holding mtx)
cvSetReady ==
    /\ cvMain = "set"
    /\ ready' = TRUE
    /\ cvMain' = "notify"
    /\ UNCHANGED <<cvMtx, cvBlocked, cvPc, cvOut, cvK>>
    /\ UNCHANGED cvOthers

\* go: cv.notify_all();
cvNotify ==
    /\ cvMain = "notify"
    /\ LET W == cvNotifyAll(cvBlocked) IN
         /\ cvBlocked' = cvBlocked \ W
         /\ cvPc' = [t \in cvThreads |-> IF t \in W THEN "relock" ELSE cvPc[t]]
    /\ cvMain' = "join"
    /\ cvK' = 0
    /\ UNCHANGED <<ready, cvMtx, cvOut>>
    /\ UNCHANGED cvOthers

\* main: for (auto& t : threads) t.join(); return 0;
cvJoin ==
    /\ cvMain = "join"
    /\ IF cvK < cvNumThreads
         THEN /\ cvPc[cvK] = "done"
              /\ cvK' = cvK + 1
              /\ UNCHANGED cvMain
         ELSE /\ cvMain' = "done"
              /\ UNCHANGED cvK
    /\ UNCHANGED <<ready, cvMtx, cvBlocked, cvPc, cvOut>>
    /\ UNCHANGED cvOthers

\* print_id: std::unique_lock<std::mutex> lck(mtx), and the re-lock inside
\* cv.wait before it returns
cvLock(t) ==
    /\ cvPc[t] \in {"lock", "relock"}
    /\ cvMtx = -1
    /\ cvMtx' = t
    /\ cvPc' = [cvPc EXCEPT ![t] = IF cvPc[t] = "lock" THEN "test" ELSE cvAfterWait]
    /\ UNCHANGED <<ready, cvBlocked, cvOut, cvMain, cvK>>
    /\ UNCHANGED cvOthers

\* print_id: while (!ready): reads ready (go writes it without the mutex, so
\* the read sees the value before or after that write)
cvTest(t) ==
    /\ cvPc[t] = "test"
    /\ cvPc' = [cvPc EXCEPT ![t] = IF cvLoopTest THEN "wait" ELSE "print"]
    /\ UNCHANGED <<ready, cvMtx, cvBlocked, cvOut, cvMain, cvK>>
    /\ UNCHANGED cvOthers

\* print_id: cv.wait(lck): releases the mutex and blocks, atomically
cvWait(t) ==
    /\ cvPc[t] = "wait"
    /\ cvMtx' = -1
    /\ cvBlocked' = cvBlocked \cup {t}
    /\ cvPc' = [cvPc EXCEPT ![t] = "blocked"]
    /\ UNCHANGED <<ready, cvOut, cvMain, cvK>>
    /\ UNCHANGED cvOthers

\* a spurious wake-up of a thread blocked in cv.wait
cvSpurious(t) ==
    /\ t \in cvBlocked
    /\ cvBlocked' = cvBlocked \ {t}
    /\ cvPc' = [cvPc EXCEPT ![t] = "relock"]
    /\ UNCHANGED <<ready, cvMtx, cvOut, cvMain, cvK>>
    /\ UNCHANGED cvOthers

\* print_id: std::cout << "Thread " << id << std::endl; then lck is released
\* as print_id returns
cvPrint(t) ==
    /\ cvPc[t] = "print"
    /\ cvOut' = Append(cvOut, t)
    /\ cvMtx' = -1
    /\ cvPc' = [cvPc EXCEPT ![t] = "done"]
    /\ UNCHANGED <<ready, cvBlocked, cvMain, cvK>>
    /\ UNCHANGED cvOthers

cvMainStep == cvCreate \/ cvSleep \/ cvSetReady \/ cvNotify \/ cvJoin

cvThread(t) == cvTest(t) \/ cvWait(t) \/ cvPrint(t)

cvNext ==
    \/ cvMainStep
    \/ \E t \in cvThreads : cvThread(t)
    \/ \E t \in cvThreads : cvLock(t)
    \/ \E t \in cvThreads : cvSpurious(t)

SpecCV == cvInit /\ [][cvNext]_vars

\* fair scheduling: main and every thread run when they can, and a thread that
\* can take the mutex again and again does take it; a spurious wake-up is
\* never guaranteed
FairSpecCV ==
    /\ SpecCV
    /\ WF_vars(cvMainStep)
    /\ \A t \in cvThreads : WF_vars(cvThread(t))
    /\ \A t \in cvThreads : SF_vars(cvLock(t))

cvPrinted == {cvOut[k] : k \in 1..Len(cvOut)}

\* C3: under fair scheduling, once go() has set ready and called notify_all,
\* every print_id thread eventually prints its id and finishes, and all joins
\* in main return.
C3_AllFinish ==
    (cvMain = "join") ~> (cvMain = "done" /\ cvPrinted = cvThreads)

\* C4: no print_id thread prints while ready is still false: a thread that is
\* about to print or has printed implies ready.
C4_PrintOnlyWhenReady ==
    \A t \in cvThreads : (cvPc[t] = "print" \/ t \in cvPrinted) => ready

C4_Witness == ready /\ cvPrinted = cvThreads /\ cvMain = "done"

-----------------------------------------------------------------------------
(* the character driver: dev_open and dev_close; the kernel runs the file  *)
(* operations of different processes concurrently                          *)

drvInit == drvIdle /\ Pinned({"drv"})

\* a process calls open() on the device: dev_open begins
drvCallOpen(p) ==
    /\ drvPc[p] = "closed"
    /\ drvPc' = [drvPc EXCEPT ![p] = "test"]
    /\ drvRet' = [drvRet EXCEPT ![p] = "none"]
    /\ UNCHANGED device_open
    /\ UNCHANGED drvOthers

\* dev_open: if (device_open) return -EBUSY;
drvTest(p) ==
    /\ drvPc[p] = "test"
    /\ IF device_open # 0
         THEN /\ drvPc' = [drvPc EXCEPT ![p] = "closed"]
              /\ drvRet' = [drvRet EXCEPT ![p] = "EBUSY"]
         ELSE /\ drvPc' = [drvPc EXCEPT ![p] = "set"]
              /\ UNCHANGED drvRet
    /\ UNCHANGED device_open
    /\ UNCHANGED drvOthers

\* dev_open: device_open = 1; return 0;
drvSet(p) ==
    /\ drvPc[p] = "set"
    /\ device_open' = 1
    /\ drvPc' = [drvPc EXCEPT ![p] = "open"]
    /\ drvRet' = [drvRet EXCEPT ![p] = "0"]
    /\ UNCHANGED drvOthers

\* dev_close (release, called for a file whose dev_open returned 0):
\* device_open = 0; return 0;
dev_close(p) ==
    /\ drvPc[p] = "open"
    /\ device_open' = 0
    /\ drvPc' = [drvPc EXCEPT ![p] = "closed"]
    /\ UNCHANGED drvRet
    /\ UNCHANGED drvOthers

dev_open(p) == drvCallOpen(p) \/ drvTest(p) \/ drvSet(p)

drvNext == \E p \in drvProcs : dev_open(p) \/ dev_close(p)

SpecDrv == drvInit /\ [][drvNext]_vars

\* the processes whose dev_open returned 0 and that have not closed the device
drvOpeners == {p \in drvProcs : drvPc[p] = "open"}

\* C5: only one process has the device open at a time: at most one opener has
\* had dev_open return 0 without a matching dev_close (also when two dev_open
\* calls run concurrently).
C5_SingleOpener == Cardinality(drvOpeners) <= 1

-----------------------------------------------------------------------------
(* the std::atomic example: two threads run increment                      *)

atInit == atIdle /\ Pinned({"at"})

\* for (int i = 0; i < 1000; ++i): the loop test
atLoopTestOffByOne(i) == i <= atIterations
atLoopTest(i) == i < atIterations

\* counter++ on std::atomic<int>: one indivisible read-modify-write
atFetchAdd(c) == c + 1

\* main: std::thread t1(increment); std::thread t2(increment);
atSpawn ==
    /\ atMain \in {"t1", "t2"}
    /\ atPc' = [atPc EXCEPT ![IF atMain = "t1" THEN 1 ELSE 2] = "for"]
    /\ atMain' = IF atMain = "t1" THEN "t2" ELSE "join1"
    /\ UNCHANGED <<atCounter, atI>>
    /\ UNCHANGED atOthers

atFor(t) ==
    /\ atPc[t] = "for"
    /\ atPc' = [atPc EXCEPT ![t] = IF atLoopTest(atI[t]) THEN "inc" ELSE "done"]
    /\ UNCHANGED <<atCounter, atI, atMain>>
    /\ UNCHANGED atOthers

\* counter++; then ++i
atInc(t) ==
    /\ atPc[t] = "inc"
    /\ atCounter' = atFetchAdd(atCounter)
    /\ atI' = [atI EXCEPT ![t] = @ + 1]
    /\ atPc' = [atPc EXCEPT ![t] = "for"]
    /\ UNCHANGED atMain
    /\ UNCHANGED atOthers

\* main: t1.join(); t2.join();
atJoin ==
    /\ atMain \in {"join1", "join2"}
    /\ atPc[IF atMain = "join1" THEN 1 ELSE 2] = "done"
    /\ atMain' = IF atMain = "join1" THEN "join2" ELSE "print"
    /\ UNCHANGED <<atCounter, atPc, atI>>
    /\ UNCHANGED atOthers

\* main: std::cout << "Final counter: " << counter.load(); return 0;
atPrint ==
    /\ atMain = "print"
    /\ atMain' = "done"
    /\ UNCHANGED <<atCounter, atPc, atI>>
    /\ UNCHANGED atOthers

atNext ==
    \/ atSpawn
    \/ atJoin
    \/ atPrint
    \/ \E t \in atThreads : atFor(t) \/ atInc(t)

SpecAt == atInit /\ [][atNext]_vars

\* C6: after both increment threads have been joined the counter equals the
\* number of increments performed, 2 x (iterations of the loop); while the
\* threads run it equals the increments performed so far.
C6_NoLostIncrement ==
    /\ atCounter = atI[1] + atI[2]
    /\ atMain \in {"print", "done"} => atCounter = 2 * atIterations

C6_Witness == atMain = "done" /\ atCounter = 2 * atIterations

-----------------------------------------------------------------------------
(* code/threading/thread_pool.cpp: ThreadPool and main                     *)

tpInit == tpIdle /\ Pinned({"tp"})

\* worker: while (true)
tpLoopOnce == FALSE
tpLoopTest == TRUE

\* ThreadPool(numThread): for (i = 0; i < numThread; i++)
\*     workers.emplace_back(&ThreadPool::worker, this);
tpConstruct ==
    /\ tpMain = "construct"
    /\ IF Len(workers) < tpNumThreads
         THEN /\ workers' = Append(workers, Len(workers) + 1)
              /\ tpPc' = [tpPc EXCEPT ![Len(workers) + 1] = "loop"]
              /\ UNCHANGED tpMain
         ELSE /\ tpMain' = "sleep"
              /\ UNCHANGED <<workers, tpPc>>
    /\ UNCHANGED tpLines
    /\ UNCHANGED tpOthers

\* worker: the test of while (true)
tpLoop(w) ==
    /\ tpMain # "terminated"
    /\ tpPc[w] = "loop"
    /\ tpPc' = [tpPc EXCEPT ![w] = IF tpLoopTest THEN "sleep" ELSE "returned"]
    /\ UNCHANGED <<workers, tpLines, tpMain>>
    /\ UNCHANGED tpOthers

\* worker: std::this_thread::sleep_for(std::chrono::seconds(1));
tpSleep(w) ==
    /\ tpMain # "terminated"
    /\ tpPc[w] = "sleep"
    /\ tpPc' = [tpPc EXCEPT ![w] = "print"]
    /\ UNCHANGED <<workers, tpLines, tpMain>>
    /\ UNCHANGED tpOthers

\* worker: std::cout << "Worker thread is working!" << std::endl;
tpPrint(w) ==
    /\ tpMain # "terminated"
    /\ tpPc[w] = "print"
    /\ tpLines' = [tpLines EXCEPT ![w] = IF @ < tpMaxLines THEN @ + 1 ELSE @]
    /\ tpPc' = [tpPc EXCEPT ![w] = "loop"]
    /\ UNCHANGED <<workers, tpMain>>
    /\ UNCHANGED tpOthers

\* main: std::this_thread::sleep_for(std::chrono::seconds(5));
tpMainSleep ==
    /\ tpMain = "sleep"
    /\ tpMain' = "return"
    /\ UNCHANGED <<workers, tpPc, tpLines>>
    /\ UNCHANGED tpOthers

\* main: return 0; pool is destroyed: ~vector destroys each std::thread, and
\* ~thread of a joinable thread calls std::terminate, which ends the process
tpReturn ==
    /\ tpMain = "return"
    /\ tpMain' = IF workers # <<>> THEN "terminated" ELSE "exited"
    /\ UNCHANGED <<workers, tpPc, tpLines>>
    /\ UNCHANGED tpOthers

worker(w) == tpLoop(w) \/ tpSleep(w) \/ tpPrint(w)

tpNext ==
    \/ tpConstruct
    \/ tpMainSleep
    \/ tpReturn
    \/ \E w \in tpWorkers : worker(w)

SpecTP == tpInit /\ [][tpNext]_vars

\* C24: when the ThreadPool object has been destroyed at the end of main, none
\* of its std::thread members was still joinable: each had been joined or
\* detached.
C24_JoinedBeforeDestroyed ==
    tpMain \in {"terminated", "exited"} => workers = <<>>

\* C7: ThreadPool(n) starts n worker threads, and each worker only repeats
\* sleep-then-print: once the constructor is done all n workers are running,
\* and a started worker is always inside its loop (at the loop test, sleeping
\* or printing), never past it.
C7_WorkersOnlyLoop ==
    /\ tpMain # "construct" =>
         /\ Len(workers) = tpNumThreads
         /\ \A w \in tpWorkers : tpPc[w] # "unstarted"
    /\ \A w \in tpWorkers :
         /\ tpPc[w] \in {"unstarted", "loop", "sleep", "print"}
         /\ tpPc[w] = "unstarted" <=> w > Len(workers)

C7_Witness ==
    /\ tpMain = "sleep"
    /\ \A w \in tpWorkers : tpLines[w] = tpMaxLines /\ tpPc[w] = "sleep"

-----------------------------------------------------------------------------
(* the command-line calculator: calculate and main                         *)

calcNumbers == (0 - calcMaxNum)..calcMaxNum

\* the text of a number on the command line, and std::stod of an argument:
\* a number for the text of a number, std::invalid_argument otherwise
calcText(n) == ToString(n)

calcOps == {"+", "-", "*", "/", "%", "plus"}

calcArgs == {calcText(n) : n \in calcNumbers} \cup {"abc"}

stod(a) ==
    IF \E n \in calcNumbers : calcText(n) = a
      THEN [ok |-> TRUE, val |-> CHOOSE n \in calcNumbers : calcText(n) = a]
      ELSE [ok |-> FALSE, val |-> 0]

DivByZeroMsg == "Error: Division by zero is not allowed."
InvalidOpMsg == "Error: Invalid operator.Support are +, -, *, /"

\* a double result: the quotient num/den
calcValue(num, den) == [kind |-> "return", num |-> num, den |-> den]
calcThrow(what) == [kind |-> "throw", type |-> "std::invalid_argument", what |-> what]

calculateNoZeroTest(num1, num2, op) ==
    IF op = "+" THEN calcValue(num1 + num2, 1)
    ELSE IF op = "-" THEN calcValue(num1 - num2, 1)
    ELSE IF op = "*" THEN calcValue(num1 * num2, 1)
    ELSE IF op = "/" THEN calcValue(num1, num2)
    ELSE calcThrow(InvalidOpMsg)

calculate(num1, num2, op) ==
    IF op = "+" THEN calcValue(num1 + num2, 1)
    ELSE IF op = "-" THEN calcValue(num1 - num2, 1)
    ELSE IF op = "*" THEN calcValue(num1 * num2, 1)
    ELSE IF op = "/" THEN
        IF num2 = 0 THEN calcThrow(DivByZeroMsg) ELSE calcValue(num1, num2)
    ELSE calcThrow(InvalidOpMsg)

\* the program is started with two, three or four arguments (argc counts
\* argv[0] too)
calcInit ==
    /\ argc \in 3..5
    /\ \E a1 \in calcArgs, a2 \in calcOps, a3 \in calcArgs :
         argv = <<a1, a2, IF argc >= 4 THEN a3 ELSE "NULL">>
    /\ calcPc = "start"
    /\ calcNums = calcNoNums
    /\ calcRes = calcNoRes
    /\ calcExc = calcNoRes
    /\ calcOut = <<>>
    /\ calcErr = <<>>
    /\ calcExit = -1
    /\ Pinned({"calc"})

\* main: if (argc != 4) std::cerr << "Usage: ..."; (main goes on all the same)
calcUsage ==
    /\ calcPc = "start"
    /\ calcErr' = IF argc # 4 THEN Append(calcErr, "Usage: calculator <num1> <operator> <num2>")
                               ELSE calcErr
    /\ calcPc' = "parse"
    /\ UNCHANGED <<argc, argv, calcNums, calcRes, calcExc, calcOut, calcExit>>
    /\ UNCHANGED calcOthers

\* main, in the try block: num1 = std::stod(argv[1]); op = argv[2];
\* num2 = std::stod(argv[3]). A null argv[3] (argc == 3) makes std::stod build
\* a std::string from a null pointer, which is undefined: the library throws
\* std::logic_error or the process crashes.
calcParse ==
    /\ calcPc = "parse"
    /\ IF ~stod(argv[1]).ok
         THEN /\ calcExc' = calcThrow("stod")
              /\ calcPc' = "catch"
              /\ UNCHANGED calcNums
         ELSE IF argv[3] = "NULL"
         THEN /\ \E crash \in BOOLEAN :
                   calcPc' = IF crash THEN "crashed" ELSE "catch"
              /\ calcExc' = [kind |-> "throw", type |-> "std::logic_error",
                              what |-> "basic_string: construction from null is not valid"]
              /\ UNCHANGED calcNums
         ELSE IF ~stod(argv[3]).ok
         THEN /\ calcExc' = calcThrow("stod")
              /\ calcPc' = "catch"
              /\ UNCHANGED calcNums
         ELSE /\ calcNums' = [num1 |-> stod(argv[1]).val, num2 |-> stod(argv[3]).val]
              /\ calcPc' = "call"
              /\ UNCHANGED calcExc
    /\ UNCHANGED <<argc, argv, calcRes, calcOut, calcErr, calcExit>>
    /\ UNCHANGED calcOthers

\* main: double result = calculate(num1, num2, op);
calcCall ==
    /\ calcPc = "call"
    /\ calcRes' = calculate(calcNums.num1, calcNums.num2, argv[2])
    /\ calcExc' = IF calcRes'.kind = "throw" THEN calcRes' ELSE calcExc
    /\ calcPc' = IF calcRes'.kind = "throw" THEN "catch" ELSE "print"
    /\ UNCHANGED <<argc, argv, calcNums, calcOut, calcErr, calcExit>>
    /\ UNCHANGED calcOthers

\* main: std::cout << "Result: " << result << "\n";
calcPrint ==
    /\ calcPc = "print"
    /\ calcOut' = Append(calcOut, <<"Result: ", calcRes.num, calcRes.den>>)
    /\ calcPc' = "return"
    /\ UNCHANGED <<argc, argv, calcNums, calcRes, calcExc, calcErr, calcExit>>
    /\ UNCHANGED calcOthers

\* main: catch (const std::exception &e) { std::cerr << e.what() << '\n'; }
calcCatch ==
    /\ calcPc = "catch"
    /\ calcErr' = Append(calcErr, calcExc.what)
    /\ calcPc' = "return"
    /\ UNCHANGED <<argc, argv, calcNums, calcRes, calcExc, calcOut, calcExit>>
    /\ UNCHANGED calcOthers

\* main: return 0;
calcReturn ==
    /\ calcPc = "return"
    /\ calcExit' = 0
    /\ calcPc' = "exited"
    /\ UNCHANGED <<argc, argv, calcNums, calcRes, calcExc, calcOut, calcErr>>
    /\ UNCHANGED calcOthers

calcNext ==
    \/ calcUsage
    \/ calcParse
    \/ calcCall
    \/ calcPrint
    \/ calcCatch
    \/ calcReturn

SpecCalc == calcInit /\ [][calcNext]_vars

\* calculate has been called with the parsed arguments and has finished
calcCalled == calcRes.kind # "none"

\* the arguments for which the claim says calculate returns a value
calcDefined == argv[2] \in {"+", "-", "*", "/"} /\ ~(argv[2] = "/" /\ calcNums.num2 = 0)

\* C8: calculate returns a value only when op is one of + - * / and not a
\* division by zero; otherwise it throws std::invalid_argument, which main
\* catches: main prints the error message, prints no "Result:" line and
\* returns 0.
C8_CalculateThrows ==
    calcCalled =>
      /\ calcRes.kind = "return" <=> calcDefined
      /\ ~calcDefined =>
           /\ calcRes.kind = "throw" /\ calcRes.type = "std::invalid_argument"
           /\ calcRes.what = (IF argv[2] = "/" THEN DivByZeroMsg ELSE InvalidOpMsg)
           /\ calcOut = <<>>
           /\ calcPc \in {"catch", "return", "exited"}
           /\ calcPc \in {"return", "exited"} => calcErr # <<>> /\ calcErr[Len(calcErr)] = calcRes.what
           /\ calcPc = "exited" => calcExit = 0

C8_Witness ==
    /\ calcPc = "exited" /\ calcExit = 0
    /\ argv[2] = "/" /\ calcNums.num2 = 0 /\ argc = 4
    /\ calcRes.kind = "throw"
    /\ calcErr = <<DivByZeroMsg>> /\ calcOut = <<>>

-----------------------------------------------------------------------------
(* the console task manager: Task, TaskManager and main. Text is a         *)
(* sequence of characters.                                                 *)

tmDigits == <<"0", "1", "2", "3", "4", "5", "6", "7", "8", "9">>

tmIsDigit(c) == \E d \in 1..10 : tmDigits[d] = c

tmDigitVal(c) == (CHOOSE d \in 1..10 : tmDigits[d] = c) - 1

\* file << int: the decimal text of n
RECURSIVE tmIntText(_)
tmIntText(n) ==
    IF n < 0 THEN <<"-">> \o tmIntText(0 - n)
    ELSE IF n < 10 THEN <<tmDigits[n + 1]>>
    ELSE tmIntText(n \div 10) \o <<tmDigits[(n % 10) + 1]>>

RECURSIVE tmSkipSpace(_)
tmSkipSpace(str) ==
    IF str # <<>> /\ Head(str) \in {" ", "\n", "\t"} THEN tmSkipSpace(Tail(str)) ELSE str

RECURSIVE tmParseDigits(_, _)
tmParseDigits(str, acc) ==
    IF str = <<>> \/ ~tmIsDigit(Head(str)) THEN acc
    ELSE tmParseDigits(Tail(str), acc * 10 + tmDigitVal(Head(str)))

\* std::stoi: skips white space, reads an optional sign and the digits that
\* follow; with no digit there it throws std::invalid_argument (ok = FALSE)
stoi(str) ==
    LET t == tmSkipSpace(str)
        signed == t # <<>> /\ Head(t) \in {"-", "+"}
        body == IF signed THEN Tail(t) ELSE t
    IN  IF body = <<>> \/ ~tmIsDigit(Head(body))
          THEN [ok |-> FALSE, val |-> 0]
          ELSE [ok |-> TRUE,
                val |-> IF signed /\ Head(t) = "-" THEN 0 - tmParseDigits(body, 0)
                                                     ELSE tmParseDigits(body, 0)]

\* the strings that successive getline(stream, x, delim) calls read from a
\* stream holding str, until getline fails at the end of the stream
RECURSIVE getline(_, _)
getline(str, delim) ==
    IF str = <<>> THEN <<>>
    ELSE IF \E i \in 1..Len(str) : str[i] = delim
      THEN LET i == CHOOSE j \in 1..Len(str) :
                        str[j] = delim /\ \A k \in 1..(j - 1) : str[k] # delim
           IN  <<SubSeq(str, 1, i - 1)>> \o getline(SubSeq(str, i + 1, Len(str)), delim)
      ELSE <<str>>

\* the k-th string read from a line; it stays empty once getline has failed
tmField(fields, k) == IF k <= Len(fields) THEN fields[k] ELSE <<>>

\* Task(desc, date) : description(desc), dueDate(date), isCompleted(false)
Task(desc, date) == [description |-> desc, dueDate |-> date, isCompleted |-> FALSE]

\* Task::markAsCompleted
markAsCompleted(t) == [t EXCEPT !.isCompleted = TRUE]

\* tasks[id] = t on a std::map
tmPut(m, id, t) == [k \in DOMAIN m \cup {id} |-> IF k = id THEN t ELSE m[k]]

\* tasks.erase(id)
tmErase(m, id) == [k \in DOMAIN m \ {id} |-> m[k]]

tmMaxKey(m) == CHOOSE k \in DOMAIN m : \A j \in DOMAIN m : j <= k
tmMinKey(m) == CHOOSE k \in DOMAIN m : \A j \in DOMAIN m : k <= j

\* saveToFile: one line of tasks.txt (a bool is written as 1 or 0)
tmLine(id, t) ==
    tmIntText(id) \o <<"|">> \o t.description \o <<"|">> \o t.dueDate \o <<"|">>
        \o <<IF t.isCompleted THEN "1" ELSE "0">> \o <<"\n">>

\* saveToFile: the text written for the map, in the map's order (ascending ID)
RECURSIVE tmSaveText(_)
tmSaveText(m) ==
    IF DOMAIN m = {} THEN <<>>
    ELSE LET id == tmMinKey(m) IN tmLine(id, m[id]) \o tmSaveText(tmErase(m, id))

\* loadFromFile: the task built from the fields of a line
tmLoadedTaskPending(desc, date, statusStr) == Task(desc, date)
tmLoadedTask(desc, date, statusStr) ==
    IF statusStr = <<"1">> THEN markAsCompleted(Task(desc, date)) ELSE Task(desc, date)

\* loadFromFile: the body of the while loop for one line; stoi's exception is
\* not caught anywhere, so it ends the program
tmLoadLine(mgr, line) ==
    LET fields == getline(line, "|")
        id == stoi(tmField(fields, 1))
    IN  IF ~id.ok THEN [mgr EXCEPT !.ok = FALSE]
        ELSE [tasks |-> tmPut(mgr.tasks, id.val,
                              tmLoadedTask(tmField(fields, 2), tmField(fields, 3), tmField(fields, 4))),
              next |-> id.val + 1,
              ok |-> TRUE]

RECURSIVE tmLoadLines(_, _)
tmLoadLines(mgr, lines) ==
    IF lines = <<>> \/ ~mgr.ok THEN mgr
    ELSE tmLoadLines(tmLoadLine(mgr, Head(lines)), Tail(lines))

\* loadFromFile on a manager, given the file
tmLoad(mgr, f) == IF ~f.exists THEN mgr ELSE tmLoadLines(mgr, getline(f.text, "\n"))

\* TaskManager::addTask
addTask(desc, date) ==
    /\ tmPc = "running"
    /\ nextTaskID <= tmMaxID
    /\ tasks' = tmPut(tasks, nextTaskID, Task(desc, date))
    /\ nextTaskID' = nextTaskID + 1
    /\ UNCHANGED <<file, tmPc, tmRun>>
    /\ UNCHANGED tmOthers

\* TaskManager::markTaskAsCompleted
markTaskAsCompleted(id) ==
    /\ tmPc = "running"
    /\ tasks' = IF id \in DOMAIN tasks THEN [tasks EXCEPT ![id] = markAsCompleted(@)] ELSE tasks
    /\ UNCHANGED <<nextTaskID, file, tmPc, tmRun>>
    /\ UNCHANGED tmOthers

\* TaskManager::deleteTask
deleteTask(id) ==
    /\ tmPc = "running"
    /\ tasks' = IF id \in DOMAIN tasks THEN tmErase(tasks, id) ELSE tasks
    /\ UNCHANGED <<nextTaskID, file, tmPc, tmRun>>
    /\ UNCHANGED tmOthers

\* TaskManager::saveToFile; opening tasks.txt for writing may fail
saveToFile ==
    /\ tmPc = "running"
    /\ \E opened \in BOOLEAN :
         file' = IF opened THEN [exists |-> TRUE, text |-> tmSaveText(tasks)] ELSE file
    /\ UNCHANGED <<tasks, nextTaskID, tmPc, tmRun>>
    /\ UNCHANGED tmOthers

\* TaskManager::loadFromFile (menu choice 6)
loadFromFile ==
    /\ tmPc = "running"
    /\ LET r == tmLoad([tasks |-> tasks, next |-> nextTaskID, ok |-> TRUE], file) IN
         /\ tasks' = r.tasks
         /\ nextTaskID' = r.next
         /\ tmPc' = IF r.ok THEN "running" ELSE "aborted"
    /\ UNCHANGED <<file, tmRun>>
    /\ UNCHANGED tmOthers

\* the program ends (choice 7, or the abort) and is started again:
\* main: TaskManager manager; manager.loadFromFile();
tmRestart ==
    /\ tmRun < tmMaxRuns
    /\ LET r == tmLoad([tasks |-> tmNoTasks, next |-> 1, ok |-> TRUE], file) IN
         /\ tasks' = r.tasks
         /\ nextTaskID' = r.next
         /\ tmPc' = IF r.ok THEN "running" ELSE "aborted"
    /\ tmRun' = tmRun + 1
    /\ UNCHANGED file
    /\ UNCHANGED tmOthers

tmInit == tmIdle /\ Pinned({"tm"})

\* the descriptions and due dates the user types in SpecTM
tmDescs == {<<"a">>, <<>>}
tmDates == {<<"d">>}

tmNext ==
    \/ \E desc \in tmDescs, date \in tmDates : addTask(desc, date)
    \/ \E id \in 0..(tmMaxID + 1) : markTaskAsCompleted(id)
    \/ \E id \in 0..(tmMaxID + 1) : deleteTask(id)
    \/ saveToFile
    \/ loadFromFile
    \/ tmRestart

SpecTM == tmInit /\ [][tmNext]_vars

\* C9: a task ID is unique: nextTaskID is greater than every ID in the map, so
\* addTask never stores the new task under an ID that is already a key.
C9_NextIDFresh == \A id \in DOMAIN tasks : id < nextTaskID

\* save and load of bounded maps: the maps over rtIDs whose descriptions and
\* due dates are short texts, with and without '|' and newline
rtIDs == {1, 2, 12}
rtDescs == {<<>>, <<"a">>, <<"1", "|">>, <<"\n">>}
rtDates == {<<>>, <<"d">>, <<"|">>}
rtTasks == [description : rtDescs, dueDate : rtDates, isCompleted : BOOLEAN]
rtMaps == UNION {[D -> rtTasks] : D \in SUBSET rtIDs}

rtInit ==
    /\ tasks \in rtMaps
    /\ nextTaskID = (IF DOMAIN tasks = {} THEN 1 ELSE tmMaxKey(tasks) + 1)
    /\ file = [exists |-> FALSE, text |-> <<>>]
    /\ tmPc = "running"
    /\ tmRun = 1
    /\ Pinned({"tm"})

rtNext == saveToFile \/ tmRestart

SpecRT == rtInit /\ [][rtNext]_vars

tmHas(str, c) == \E i \in 1..Len(str) : str[i] = c

\* no description and no due date of the map contains '|' or a newline
tmClean(m) ==
    \A id \in DOMAIN m :
        /\ ~tmHas(m[id].description, "|") /\ ~tmHas(m[id].description, "\n")
        /\ ~tmHas(m[id].dueDate, "|") /\ ~tmHas(m[id].dueDate, "\n")

\* C10: when tasks.txt holds what saveToFile writes for the current map, and no
\* description or due date contains '|' or a newline, loadFromFile into an
\* empty TaskManager (a new start of the program) reproduces exactly that map
\* and leaves nextTaskID at the largest saved ID plus one.
C10_RoundTrip ==
    [][(/\ tmRun' = tmRun + 1
        /\ file.exists
        /\ file.text = tmSaveText(tasks)
        /\ tmClean(tasks))
       => (/\ tmPc' = "running"
           /\ tasks' = tasks
           /\ DOMAIN tasks # {} => nextTaskID' = tmMaxKey(tasks) + 1)]_vars

C10_Witness ==
    /\ tmRun = 2 /\ tmPc = "running"
    /\ file.exists /\ file.text = tmSaveText(tasks)
    /\ DOMAIN tasks = rtIDs
    /\ tasks[2].isCompleted /\ ~tasks[12].isCompleted
    /\ tasks[1].description = <<>> /\ tasks[2].description = <<"a">>
    /\ nextTaskID = 13

-----------------------------------------------------------------------------
(* the Observer pattern example: WeatherStation                            *)

obsInit == obsIdle /\ Pinned({"obs"})

obsObservers == 1..obsNumObservers

obsData == {"22C 60%", "24C 55%"}

\* observers.erase(std::remove(begin, end, observer), end): every occurrence
\* of observer is removed, the order of the others is kept
obsRemoveFirst(list, observer) ==
    IF \E i \in 1..Len(list) : list[i] = observer
      THEN LET i == CHOOSE j \in 1..Len(list) :
                        list[j] = observer /\ \A k \in 1..(j - 1) : list[k] # observer
           IN  SubSeq(list, 1, i - 1) \o SubSeq(list, i + 1, Len(list))
      ELSE list
obsRemove(list, observer) == SelectSeq(list, LAMBDA x : x # observer)

\* WeatherStation::notify: the update calls it makes, in order
notify(list, data) == [i \in 1..Len(list) |-> <<list[i], data>>]

\* WeatherStation::attach
attach(observer) ==
    /\ Len(obsCalls) < obsMaxCalls
    /\ observers' = Append(observers, observer)
    /\ obsCalls' = Append(obsCalls, <<"attach", observer>>)
    /\ UNCHANGED <<weatherData, obsUpdates>>
    /\ UNCHANGED obsOthers

\* WeatherStation::detach
detach(observer) ==
    /\ Len(obsCalls) < obsMaxCalls
    /\ observers' = obsRemove(observers, observer)
    /\ obsCalls' = Append(obsCalls, <<"detach", observer>>)
    /\ UNCHANGED <<weatherData, obsUpdates>>
    /\ UNCHANGED obsOthers

\* WeatherStation::setWeatherData: weatherData = data; notify();
setWeatherData(data) ==
    /\ Len(obsCalls) < obsMaxCalls
    /\ weatherData' = data
    /\ obsUpdates' = notify(observers, weatherData')
    /\ obsCalls' = Append(obsCalls, <<"set", data>>)
    /\ UNCHANGED observers
    /\ UNCHANGED obsOthers

obsNext ==
    \/ \E o \in obsObservers : attach(o)
    \/ \E o \in obsObservers : detach(o)
    \/ \E d \in obsData : setWeatherData(d)

SpecObs == obsInit /\ [][obsNext]_vars

\* the attach calls of a call sequence that no later detach of the same
\* observer follows, in the order they were made
RECURSIVE obsAttached(_)
obsAttached(calls) ==
    IF calls = <<>> THEN <<>>
    ELSE LET c == calls[Len(calls)]
             before == obsAttached(SubSeq(calls, 1, Len(calls) - 1))
         IN  IF c[1] = "attach" THEN Append(before, c[2])
             ELSE IF c[1] = "detach" THEN SelectSeq(before, LAMBDA x : x # c[2])
             ELSE before

\* C11: after any sequence of attach and detach calls, setWeatherData(d) stores
\* d and calls update(d) on the observers currently attached, in attach order,
\* and on no detached observer.
C11_NotifyAttached ==
    (obsCalls # <<>> /\ obsCalls[Len(obsCalls)][1] = "set") =>
      LET d == obsCalls[Len(obsCalls)][2]
          att == obsAttached(obsCalls)
      IN  /\ weatherData = d
          /\ Len(obsUpdates) = Len(att)
          /\ \A i \in 1..Len(att) : obsUpdates[i] = <<att[i], d>>

C11_Witness ==
    /\ obsCalls = <<<<"attach", 1>>, <<"attach", 2>>, <<"detach", 1>>, <<"set", "24C 55%">>>>
    /\ obsUpdates = <<<<2, "24C 55%">>>>

-----------------------------------------------------------------------------
(* the Flyweight pattern example: FlyweightFactory::getCharacter           *)

fwInit == fwIdle /\ Pinned({"fw"})

fwChars == {"A", "B", "C"}

\* characterPool.find(c) != characterPool.end()
fwNeverFound(pool, c) == FALSE
fwFound(pool, c) == c \in DOMAIN pool

\* FlyweightFactory::getCharacter(c)
getCharacter(c) ==
    /\ Len(fwReturned) < fwMaxCalls
    /\ IF ~fwFound(characterPool, c)
         THEN /\ fwHeap' = Append(fwHeap, c)
              /\ characterPool' = [k \in DOMAIN characterPool \cup {c} |->
                                     IF k = c THEN Len(fwHeap) + 1 ELSE characterPool[k]]
         ELSE UNCHANGED <<fwHeap, characterPool>>
    /\ fwReturned' = Append(fwReturned, <<c, characterPool'[c]>>)
    /\ UNCHANGED fwOthers

fwNext == \E c \in fwChars : getCharacter(c)

SpecFw == fwInit /\ [][fwNext]_vars

fwRequested == {fwReturned[i][1] : i \in 1..Len(fwReturned)}

\* C12: all getCharacter(c) calls return the same object for the same c; an
\* object is created only on the first request for c, so the pool holds
\* exactly one flyweight per distinct character requested.
C12_OneFlyweightPerChar ==
    /\ \A i, j \in 1..Len(fwReturned) :
         fwReturned[i][1] = fwReturned[j][1] <=> fwReturned[i][2] = fwReturned[j][2]
    /\ DOMAIN characterPool = fwRequested
    /\ Len(fwHeap) = Cardinality(fwRequested)
    /\ \A c \in DOMAIN characterPool :
         characterPool[c] \in 1..Len(fwHeap) /\ fwHeap[characterPool[c]] = c

C12_Witness ==
    /\ Len(fwReturned) = 4
    /\ fwReturned[1] = <<"A", 1>> /\ fwReturned[2] = <<"B", 2>>
    /\ fwReturned[3] = <<"A", 1>> /\ fwReturned[4] = <<"C", 3>>

-----------------------------------------------------------------------------
(* the event processing example: EventProcessor                            *)

epInit == epIdle /\ Pinned({"ep"})

epEvents == {"Login", "Purchase", "Logout"}
epUsers == {101, 102}

\* eventQueue.front()
epBack(q) == q[Len(q)]
epFront(q) == Head(q)

\* EventProcessor::addEvent
addEvent(event, userId) ==
    /\ Len(epOut) < epMaxLines
    /\ eventQueue' = Append(eventQueue, event)
    /\ epOut' = Append(epOut, <<"Added", event>>)
    /\ UNCHANGED processedEvents
    /\ UNCHANGED epOthers

\* EventProcessor::processEvent
processEvent ==
    /\ Len(epOut) < epMaxLines
    /\ IF eventQueue # <<>>
         THEN /\ epOut' = Append(epOut, <<"Processing", epFront(eventQueue)>>)
              /\ eventQueue' = Tail(eventQueue)
         ELSE /\ epOut' = Append(epOut, <<"None", "No events to process.">>)
              /\ UNCHANGED eventQueue
    /\ UNCHANGED processedEvents
    /\ UNCHANGED epOthers

\* EventProcessor::storeProcessedEvent
storeProcessedEvent(userId, event) ==
    /\ processedEvents' = [u \in DOMAIN processedEvents \cup {userId} |->
                             IF u = userId THEN event ELSE processedEvents[u]]
    /\ UNCHANGED <<eventQueue, epOut>>
    /\ UNCHANGED epOthers

epNext ==
    \/ \E e \in epEvents, u \in epUsers : addEvent(e, u)
    \/ processEvent
    \/ \E u \in {101}, e \in {"Login", "Logout"} : storeProcessedEvent(u, e)

SpecEp == epInit /\ [][epNext]_vars

\* the events of the output lines of one kind, in order
epLines(kind) ==
    LET sel == SelectSeq(epOut, LAMBDA l : l[1] = kind)
    IN  [i \in 1..Len(sel) |-> sel[i][2]]

\* the events handled so far are the first events added, in the same order,
\* and the queue holds the rest
epFifo ==
    LET added == epLines("Added")
        done == epLines("Processing")
    IN  /\ Len(done) <= Len(added)
        /\ done = SubSeq(added, 1, Len(done))
        /\ eventQueue = SubSeq(added, Len(done) + 1, Len(added))

\* a processEvent call on an empty queue reports it and changes nothing
epEmptyCall ==
    (eventQueue = <<>> /\ Len(epOut') = Len(epOut) + 1 /\ epOut'[Len(epOut')][1] # "Added")
      => /\ epOut'[Len(epOut')] = <<"None", "No events to process.">>
         /\ UNCHANGED <<eventQueue, processedEvents>>

\* C13: events are processed in exactly the order addEvent enqueued them: each
\* processEvent removes and handles the oldest unprocessed event, and on an
\* empty queue it reports "No events to process." and changes no state.
C13_Fifo == []epFifo /\ [][epEmptyCall]_vars

C13_Witness ==
    /\ epOut = <<<<"Added", "Login">>, <<"Added", "Purchase">>, <<"Processing", "Login">>,
                 <<"Processing", "Purchase">>, <<"None", "No events to process.">>>>
    /\ eventQueue = <<>>

-----------------------------------------------------------------------------
(* the parallel map example: parallelMap, called as in main with an output *)
(* vector of the input's size; indices are 0-based as in the program       *)

pmValues == {1, 2}

pmInputs == UNION {[1..n -> pmValues] : n \in 0..pmMaxLen}

\* main's lambda: [](int x) { return x * x; }
func(x) == x * x

pmMin(a, b) == IF a <= b THEN a ELSE b

\* main: std::vector<int> result(data.size()); parallelMap(data, func, result);
\* hardware_concurrency() may return 0 when it cannot tell
pmInit ==
    /\ pmInput \in pmInputs
    /\ pmOutput = [i \in 1..Len(pmInput) |-> 0]
    /\ pmHw \in 0..pmMaxHw
    /\ pmPc = "start"
    /\ pmChunk = [numThreads |-> 0, chunkSize |-> 0]
    /\ pmThreads = <<>>
    /\ pmK = 0
    /\ Pinned({"pm"})

\* size_t end = (i == numThreads - 1) ? input.size() : start + chunkSize;
pmEndNoRemainder(i, numThreads, chunkSize, size) == i * chunkSize + chunkSize
pmEndOneMore(i, numThreads, chunkSize, size) ==
    IF i = numThreads - 1 THEN size ELSE i * chunkSize + chunkSize + 1
pmEnd(i, numThreads, chunkSize, size) ==
    IF i = numThreads - 1 THEN size ELSE i * chunkSize + chunkSize

\* numThreads = std::min(input.size(), hardware_concurrency());
\* chunkSize = input.size() / numThreads; a division by zero is undefined: the
\* process traps, or the division yields some value and parallelMap goes on
pmBegin ==
    /\ pmPc = "start"
    /\ LET numThreads == pmMin(Len(pmInput), pmHw) IN
         IF numThreads = 0
           THEN \E trap \in BOOLEAN :
                  /\ pmPc' = IF trap THEN "crashed" ELSE "create"
                  /\ pmChunk' = [numThreads |-> 0, chunkSize |-> 0]
           ELSE /\ pmPc' = "create"
                /\ pmChunk' = [numThreads |-> numThreads,
                               chunkSize |-> Len(pmInput) \div numThreads]
    /\ UNCHANGED <<pmInput, pmOutput, pmHw, pmThreads, pmK>>
    /\ UNCHANGED pmOthers

\* for (i = 0; i < numThreads; ++i) threads[i] = std::thread(mapChunk, start, end, i * chunkSize);
pmCreate ==
    /\ pmPc = "create"
    /\ IF pmK < pmChunk.numThreads
         THEN /\ pmThreads' = Append(pmThreads,
                    [start |-> pmK * pmChunk.chunkSize,
                     end |-> pmEnd(pmK, pmChunk.numThreads, pmChunk.chunkSize, Len(pmInput)),
                     index |-> pmK * pmChunk.chunkSize,
                     i |-> pmK * pmChunk.chunkSize,
                     done |-> FALSE])
              /\ pmK' = pmK + 1
              /\ UNCHANGED pmPc
         ELSE /\ pmPc' = "join"
              /\ pmK' = 0
              /\ UNCHANGED pmThreads
    /\ UNCHANGED <<pmInput, pmOutput, pmHw, pmChunk>>
    /\ UNCHANGED pmOthers

\* mapChunk: for (i = start; i < end; ++i) output[index + i - start] = func(input[i]);
mapChunk(t) ==
    /\ t \in 1..Len(pmThreads)
    /\ ~pmThreads[t].done
    /\ LET th == pmThreads[t] IN
         IF th.i < th.end
           THEN /\ pmOutput' = [pmOutput EXCEPT ![th.index + th.i - th.start + 1] = func(pmInput[th.i + 1])]
                /\ pmThreads' = [pmThreads EXCEPT ![t].i = th.i + 1]
           ELSE /\ pmThreads' = [pmThreads EXCEPT ![t].done = TRUE]
                /\ UNCHANGED pmOutput
    /\ UNCHANGED <<pmInput, pmHw, pmPc, pmChunk, pmK>>
    /\ UNCHANGED pmOthers

\* for (auto& t : threads) t.join(); then parallelMap returns
pmJoin ==
    /\ pmPc = "join"
    /\ IF pmK < Len(pmThreads)
         THEN /\ pmThreads[pmK + 1].done
              /\ pmK' = pmK + 1
              /\ UNCHANGED pmPc
         ELSE /\ pmPc' = "returned"
              /\ UNCHANGED pmK
    /\ UNCHANGED <<pmInput, pmOutput, pmHw, pmChunk, pmThreads>>
    /\ UNCHANGED pmOthers

pmNext ==
    \/ pmBegin
    \/ pmCreate
    \/ pmJoin
    \/ \E t \in 1..pmMaxHw : mapChunk(t)

SpecPm == pmInit /\ [][pmNext]_vars

\* C14: for every non-empty input and every number (at least one) of worker
\* threads, when parallelMap has returned output[i] = func(input[i]) for every
\* index i; and input never changes.
C14_MapsEveryElement ==
    /\ (pmPc = "returned" /\ pmInput # <<>> /\ pmHw >= 1) =>
         /\ Len(pmOutput) = Len(pmInput)
         /\ \A i \in 1..Len(pmInput) : pmOutput[i] = func(pmInput[i])
    /\ (pmPc # "start" /\ pmInput # <<>> /\ pmHw >= 1) =>
         pmChunk.numThreads = pmMin(Len(pmInput), pmHw)

C14_Witness ==
    /\ pmPc = "returned"
    /\ pmInput = <<1, 2, 2>> /\ pmOutput = <<1, 4, 4>>
    /\ Len(pmThreads) = 2 /\ pmThreads[2].end = 3

-----------------------------------------------------------------------------
(* the RabbitMQ / PostgreSQL example: ./producer is run some times, ./consumer *)
(* runs beside it                                                            *)

mqInit ==
    /\ mqQueue = <<>>
    /\ mqRows = <<>>
    /\ mqRun = 0
    /\ mqProdPc = "exited"
    /\ mqConsPc = "wait"
    /\ mqEnv = 0
    /\ mqReceived = {}
    /\ mqHandled = {}
    /\ Pinned({"mq"})

\* ./producer is started: main connects to the database
mqProducerStart ==
    /\ mqProdPc = "exited"
    /\ mqRun < mqMaxRuns
    /\ mqRun' = mqRun + 1
    /\ mqProdPc' = "send"
    /\ UNCHANGED <<mqQueue, mqRows, mqConsPc, mqEnv, mqReceived, mqHandled>>
    /\ UNCHANGED mqOthers

\* sendMessageToQueue: publishes to task_queue, or returns early when the
\* socket cannot be created or opened
sendMessageToQueue ==
    /\ mqProdPc = "send"
    /\ \E ok \in BOOLEAN :
         mqQueue' = IF ok THEN Append(mqQueue, mqRun) ELSE mqQueue
    /\ mqProdPc' = "insert"
    /\ UNCHANGED <<mqRows, mqRun, mqConsPc, mqEnv, mqReceived, mqHandled>>
    /\ UNCHANGED mqOthers

\* insertMessageIntoDB: INSERT INTO messages (content); id is the next serial,
\* status defaults to 'pending'; then main returns
insertMessageIntoDB ==
    /\ mqProdPc = "insert"
    /\ mqRows' = Append(mqRows, [run |-> mqRun, status |-> "pending"])
    /\ mqProdPc' = "exited"
    /\ UNCHANGED <<mqQueue, mqRun, mqConsPc, mqEnv, mqReceived, mqHandled>>
    /\ UNCHANGED mqOthers

\* the id markMessageAsProcessed is called with for the message in the envelope
mqMarkedId(env, rows) == 1

\* UPDATE messages SET status = 'processed' WHERE id = messageId
markMessageAsProcessed(rows, messageId) ==
    [id \in 1..Len(rows) |->
       IF id = messageId THEN [rows[id] EXCEPT !.status = "processed"] ELSE rows[id]]

\* amqp_consume_message returns the next message of task_queue (no_ack = 1)
consumeMessageFromQueue ==
    /\ mqConsPc = "wait"
    /\ mqQueue # <<>>
    /\ mqEnv' = Head(mqQueue)
    /\ mqQueue' = Tail(mqQueue)
    /\ mqReceived' = mqReceived \cup {Head(mqQueue)}
    /\ mqConsPc' = "mark"
    /\ UNCHANGED <<mqRows, mqRun, mqProdPc, mqHandled>>
    /\ UNCHANGED mqOthers

\* connectToDatabase; markMessageAsProcessed(dbConn, 1); PQfinish; destroy envelope
mqProcess ==
    /\ mqConsPc = "mark"
    /\ mqRows' = markMessageAsProcessed(mqRows, mqMarkedId(mqEnv, mqRows))
    /\ mqHandled' = IF \E id \in 1..Len(mqRows) : mqRows[id].run = mqEnv
                      THEN mqHandled \cup {mqEnv} ELSE mqHandled
    /\ mqEnv' = 0
    /\ mqConsPc' = "wait"
    /\ UNCHANGED <<mqQueue, mqRun, mqProdPc, mqReceived>>
    /\ UNCHANGED mqOthers

\* amqp_consume_message fails: "Error receiving message", break, main returns
mqConsumeError ==
    /\ mqConsPc = "wait"
    /\ mqConsPc' = "exited"
    /\ UNCHANGED <<mqQueue, mqRows, mqRun, mqProdPc, mqEnv, mqReceived, mqHandled>>
    /\ UNCHANGED mqOthers

mqNext ==
    \/ mqProducerStart
    \/ sendMessageToQueue
    \/ insertMessageIntoDB
    \/ consumeMessageFromQueue
    \/ mqProcess
    \/ mqConsumeError

SpecMq == mqInit /\ [][mqNext]_vars

\* C15: the row of every message the consumer has processed is 'processed', and
\* the row of every message it has not received is 'pending'.
C15_MarksOwnRow ==
    \A id \in 1..Len(mqRows) :
       /\ mqRows[id].run \in mqHandled => mqRows[id].status = "processed"
       /\ mqRows[id].run \notin mqReceived => mqRows[id].status = "pending"

-----------------------------------------------------------------------------
(* the FTP client: main, create_control_socket, enter_passive_mode and      *)
(* ftp_download_file                                                        *)

ftpPortParts == {<<19, 200>>, <<0, 21>>, <<4, 0>>}

ftpInit ==
    /\ ftpPc = "start"
    /\ ftpOpen = {}
    /\ control_sockfd = -1
    /\ data_sockfd = -1
    /\ ftpReply \in ftpPortParts
    /\ data_port = 0
    /\ ftpRemote \in 0..ftpMaxChunks
    /\ ftpFile = [open |-> FALSE, bytes |-> 0]
    /\ ftpExit = 0
    /\ Pinned({"ftp"})

\* socket() returns the lowest descriptor not in use (0, 1, 2 are the standard streams)
ftpNewFd(open) == CHOOSE fd \in 3..(3 + Cardinality(open)) :
                     fd \notin open /\ \A g \in 3..(fd - 1) : g \in open

\* create_control_socket: the descriptor it returns and the descriptors open
\* afterwards; socket() may fail, connect() may fail (the socket is closed again)
create_control_socket(open, outcome) ==
    IF outcome = "connected"
      THEN [ret |-> ftpNewFd(open), open |-> open \cup {ftpNewFd(open)}]
      ELSE [ret |-> -1, open |-> open]

ftpOutcomes == {"connected", "socket failed", "connect failed"}

\* main: int control_sockfd = create_control_socket(server_ip); return -1 on failure
ftpMainConnect ==
    /\ ftpPc = "start"
    /\ \E o \in ftpOutcomes :
         LET r == create_control_socket(ftpOpen, o) IN
           /\ control_sockfd' = r.ret
           /\ ftpOpen' = r.open
           /\ IF r.ret = -1
                THEN ftpPc' = "exited" /\ ftpExit' = -1
                ELSE ftpPc' = "login" /\ UNCHANGED ftpExit
    /\ UNCHANGED <<data_sockfd, ftpReply, data_port, ftpRemote, ftpFile>>
    /\ UNCHANGED ftpOthers

\* ftp_login: USER and PASS, the responses are printed only
ftp_login ==
    /\ ftpPc = "login"
    /\ ftpPc' = "pasv"
    /\ UNCHANGED <<ftpOpen, control_sockfd, data_sockfd, ftpReply, data_port, ftpRemote, ftpFile, ftpExit>>
    /\ UNCHANGED ftpOthers

\* enter_passive_mode: int data_port = port1 * 256 + port2; the caller parses
\* it back with std::stoi
enter_passive_mode ==
    /\ ftpPc = "pasv"
    /\ data_port' = ftpReply[1] * 256 + ftpReply[2]
    /\ ftpPc' = "data"
    /\ UNCHANGED <<ftpOpen, control_sockfd, data_sockfd, ftpReply, ftpRemote, ftpFile, ftpExit>>
    /\ UNCHANGED ftpOthers

\* ftp_download_file: int data_sockfd = create_control_socket(data_ip, data_port);
\* then RETR is sent and the response printed
ftpDataConnect ==
    /\ ftpPc = "data"
    /\ \E o \in ftpOutcomes :
         LET r == create_control_socket(ftpOpen, o) IN
           /\ data_sockfd' = r.ret
           /\ ftpOpen' = r.open
    /\ ftpPc' = "fopen"
    /\ UNCHANGED <<control_sockfd, ftpReply, data_port, ftpRemote, ftpFile, ftpExit>>
    /\ UNCHANGED ftpOthers

\* what ftp_download_file closes when fopen failed: nothing
ftpClosedOnFopenFailure(fd) == {}

\* FILE *file = fopen(local_file.c_str(), "wb"); if (!file) { ...; return; }
ftpFopen ==
    /\ ftpPc = "fopen"
    /\ \E ok \in BOOLEAN :
         IF ok
           THEN /\ ftpFile' = [open |-> TRUE, bytes |-> 0]
                /\ ftpPc' = "recv"
                /\ UNCHANGED ftpOpen
           ELSE /\ ftpPc' = "downloaded"
                /\ ftpOpen' = ftpOpen \ ftpClosedOnFopenFailure(data_sockfd)
                /\ UNCHANGED ftpFile
    /\ UNCHANGED <<control_sockfd, data_sockfd, ftpReply, data_port, ftpRemote, ftpExit>>
    /\ UNCHANGED ftpOthers

\* while ((bytes_received = recv(data_sockfd, ...)) > 0) fwrite(...);
\* recv on descriptor -1 returns -1; on a connection: the next chunk, or 0 at its end
ftpRecv ==
    /\ ftpPc = "recv"
    /\ IF data_sockfd \in ftpOpen /\ ftpRemote > 0
         THEN /\ ftpRemote' = ftpRemote - 1
              /\ ftpFile' = [ftpFile EXCEPT !.bytes = @ + 1]
              /\ UNCHANGED ftpPc
         ELSE /\ ftpPc' = "close"
              /\ UNCHANGED <<ftpRemote, ftpFile>>
    /\ UNCHANGED <<ftpOpen, control_sockfd, data_sockfd, ftpReply, data_port, ftpExit>>
    /\ UNCHANGED ftpOthers

\* fclose(file); close(data_sockfd); and ftp_download_file returns
ftpCloseData ==
    /\ ftpPc = "close"
    /\ ftpFile' = [ftpFile EXCEPT !.open = FALSE]
    /\ ftpOpen' = ftpOpen \ {data_sockfd}
    /\ ftpPc' = "downloaded"
    /\ UNCHANGED <<control_sockfd, data_sockfd, ftpReply, data_port, ftpRemote, ftpExit>>
    /\ UNCHANGED ftpOthers

\* main: close(control_sockfd); return 0;
ftpMainClose ==
    /\ ftpPc = "downloaded"
    /\ ftpOpen' = ftpOpen \ {control_sockfd}
    /\ ftpPc' = "exited"
    /\ ftpExit' = 0
    /\ UNCHANGED <<control_sockfd, data_sockfd, ftpReply, data_port, ftpRemote, ftpFile>>
    /\ UNCHANGED ftpOthers

ftpNext ==
    \/ ftpMainConnect
    \/ ftp_login
    \/ enter_passive_mode
    \/ ftpDataConnect
    \/ ftpFopen
    \/ ftpRecv
    \/ ftpCloseData
    \/ ftpMainClose

SpecFtp == ftpInit /\ [][ftpNext]_vars

\* C16: once ftp_download_file has returned, the data socket it opened is
\* closed, and when main has exited the control socket is closed too.
C16_ConnectionsClosed ==
    /\ ftpPc \in {"downloaded", "exited"} => data_sockfd \notin ftpOpen
    /\ ftpPc = "exited" => control_sockfd \notin ftpOpen

-----------------------------------------------------------------------------
(* the SDL example: the event handling of main's loop, one action per event *)
(* returned by SDL_PollEvent                                                *)

\* mouse coordinates the events carry: outside, inside and on the far side of
\* the initial rectangle
sdlCoords == {20, 130, 180, 260}

\* Rectangle rect = {100, 100, 100, 100, {0, 0, 255, 255}}; bool quit = false;
sdlInit ==
    /\ rect = [x |-> 100, y |-> 100, w |-> 100, h |-> 100]
    /\ quit = FALSE
    /\ sdlLeft = FALSE
    /\ sdlDragging = FALSE
    /\ sdlEvents = 0
    /\ Pinned({"sdl"})

\* e.button.x > rect.x && e.button.x < rect.x + rect.w && e.button.y > rect.y && ...
sdlInside(r, x, y) ==
    /\ x > r.x /\ x < r.x + r.w
    /\ y > r.y /\ y < r.y + r.h

\* rect.x = e.button.x - rect.w / 2; rect.y = e.button.y - rect.h / 2;
sdlCentredAt(r, x, y) == [r EXCEPT !.x = x - r.w \div 2, !.y = y - r.h \div 2]

\* SDL_MOUSEBUTTONDOWN with SDL_BUTTON_LEFT at (x, y)
sdlLeftDown ==
    /\ ~quit /\ sdlEvents < sdlMaxEvents
    /\ ~sdlLeft
    /\ \E x \in sdlCoords, y \in sdlCoords :
         /\ rect' = IF sdlInside(rect, x, y) THEN sdlCentredAt(rect, x, y) ELSE rect
         /\ sdlDragging' = sdlInside(rect, x, y)
    /\ sdlLeft' = TRUE
    /\ sdlEvents' = sdlEvents + 1
    /\ UNCHANGED quit
    /\ UNCHANGED sdlOthers

\* SDL_MOUSEBUTTONUP of the left button: no branch of the loop handles it
sdlLeftUp ==
    /\ ~quit /\ sdlEvents < sdlMaxEvents
    /\ sdlLeft
    /\ sdlLeft' = FALSE
    /\ sdlDragging' = FALSE
    /\ sdlEvents' = sdlEvents + 1
    /\ UNCHANGED <<rect, quit>>
    /\ UNCHANGED sdlOthers

\* SDL_MOUSEMOTION to (x, y); e.motion.state has the left bit while the button is held
sdlMotion ==
    /\ ~quit /\ sdlEvents < sdlMaxEvents
    /\ \E x \in sdlCoords, y \in sdlCoords :
         rect' = IF sdlLeft THEN sdlCentredAt(rect, x, y) ELSE rect
    /\ sdlEvents' = sdlEvents + 1
    /\ UNCHANGED <<quit, sdlLeft, sdlDragging>>
    /\ UNCHANGED sdlOthers

\* SDL_QUIT
sdlQuit ==
    /\ ~quit
    /\ quit' = TRUE
    /\ UNCHANGED <<rect, sdlLeft, sdlDragging, sdlEvents>>
    /\ UNCHANGED sdlOthers

sdlNext ==
    \/ sdlLeftDown
    \/ sdlLeftUp
    \/ sdlMotion
    \/ sdlQuit

SpecSdl == sdlInit /\ [][sdlNext]_vars

\* C17: the rectangle's position changes only during a drag that began with a
\* left press inside the rectangle; after a press outside it, motion leaves the
\* position unchanged.
C17_MovesOnlyWhenDragged ==
    [][rect' # rect => sdlDragging']_vars

-----------------------------------------------------------------------------
(* Dijkstra's algorithm: Graph(V), addEdge, dijkstra(start); vertices are   *)
(* 0..V-1 as in the program, vectors are indexed from 1 (vertex v at v + 1) *)

\* weights of the edges: zero, small, large, and the largest int
dijWeights == {0, 2, 5, INT_MAX}

\* the pairs of vertices u < v
dijPairs == {p \in (0..dijV-1) \X (0..dijV-1) : p[1] < p[2]}

\* adjList[x] after addEdge(u, v, w[u, v]) for the pairs u < v in ascending
\* order, each call doing adjList[u].push_back({v, weight}) and
\* adjList[v].push_back({u, weight}): the neighbours of x in ascending order;
\* w[u, v] < 0: no edge
dijAddEdges(w, x) ==
    SelectSeq([i \in 1..dijV |->
                 <<i - 1, IF i - 1 < x THEN w[<<i - 1, x>>]
                          ELSE IF i - 1 > x THEN w[<<x, i - 1>>] ELSE -1>>],
              LAMBDA e : e[2] >= 0)

\* Graph g(V); g.addEdge(...) for any set of edges; g.dijkstra(0) as in main:
\* dist(V, INT_MAX), dist[start] = 0, pq.push({0, start})
dijInit ==
    /\ \E w \in [dijPairs -> dijWeights \cup {-1}] :
         dijAdjList = [x \in 1..dijV |-> dijAddEdges(w, x - 1)]
    /\ dijStart = 0
    /\ dist = [x \in 1..dijV |-> IF x = dijStart + 1 THEN 0 ELSE INT_MAX]
    /\ pq = {<<0, dijStart>>}
    /\ dijPc = "run"
    /\ Pinned({"dij"})

\* pq.top() of a min-heap of pairs: the smallest pair, first by distance
dijTop(heap) == CHOOSE p \in heap : \A r \in heap :
                   p[1] < r[1] \/ (p[1] = r[1] /\ p[2] <= r[2])

\* dist[u] + weight in int: a sum above INT_MAX is a signed overflow, which
\* wraps around when the build does not trap
dijSum(a, b) == IF a + b > INT_MAX THEN a + b - 2 * (INT_MAX + 1) ELSE a + b

\* if (dist[u] + weight < dist[v])
dijImprovesFirstOnly(du, weight, dv) == dv = INT_MAX /\ dijSum(du, weight) < dv
dijImproves(du, weight, dv) == dijSum(du, weight) < dv

\* for (auto adj : adjList[u]) { ... } from the k-th neighbour on: the new
\* dist and pq, and whether a sum overflowed
RECURSIVE dijRelax(_, _, _, _, _, _)
dijRelax(adj, u, d, heap, ovf, k) ==
    IF k > Len(adj) THEN [dist |-> d, pq |-> heap, overflow |-> ovf]
    ELSE LET v == adj[k][1]
             weight == adj[k][2]
             o == ovf \/ d[u + 1] + weight > INT_MAX
         IN IF dijImproves(d[u + 1], weight, d[v + 1])
              THEN dijRelax(adj, u, [d EXCEPT ![v + 1] = dijSum(d[u + 1], weight)],
                            heap \cup {<<dijSum(d[u + 1], weight), v>>}, o, k + 1)
              ELSE dijRelax(adj, u, d, heap, o, k + 1)

\* one iteration of while (!pq.empty()): pop the top, relax its neighbours; an
\* overflowing sum is undefined: the build wraps it or traps
dijIterate ==
    /\ dijPc = "run"
    /\ pq # {}
    /\ LET u == dijTop(pq)[2]
           r == dijRelax(dijAdjList[u + 1], u, dist, pq \ {dijTop(pq)}, FALSE, 1)
       IN IF r.overflow
            THEN \E trap \in BOOLEAN :
                   IF trap
                     THEN dijPc' = "aborted" /\ UNCHANGED <<dist, pq>>
                     ELSE dist' = r.dist /\ pq' = r.pq /\ UNCHANGED dijPc
            ELSE dist' = r.dist /\ pq' = r.pq /\ UNCHANGED dijPc
    /\ UNCHANGED <<dijAdjList, dijStart>>
    /\ UNCHANGED dijOthers

\* the loop ends on the empty queue and the distances are printed
dijReport ==
    /\ dijPc = "run"
    /\ pq = {}
    /\ dijPc' = "done"
    /\ UNCHANGED <<dijAdjList, dijStart, dist, pq>>
    /\ UNCHANGED dijOthers

dijNext ==
    \/ dijIterate
    \/ dijReport

\* dijkstra is sequential code: it keeps running until it returns
FairSpecDij == dijInit /\ [][dijNext]_vars /\ WF_vars(dijNext)

\* the weight of the edge from y to z, -1 when there is none
dijEdge(y, z) ==
    IF \E k \in 1..Len(dijAdjList[y + 1]) : dijAdjList[y + 1][k][1] = z
      THEN dijAdjList[y + 1][CHOOSE k \in 1..Len(dijAdjList[y + 1]) :
                               dijAdjList[y + 1][k][1] = z][2]
      ELSE -1

\* the paths from start over distinct vertices, each as its last vertex, the
\* vertices on it and its weight over the integers: those in P and their
\* extensions by up to n edges
RECURSIVE dijPaths(_, _)
dijPaths(P, n) ==
    IF n = 0 THEN P
    ELSE P \cup dijPaths({[last |-> e[2], seen |-> e[1].seen \cup {e[2]},
                           weight |-> e[1].weight + dijEdge(e[1].last, e[2])] :
                            e \in {f \in P \X (0..dijV-1) :
                                     /\ f[2] \notin f[1].seen
                                     /\ dijEdge(f[1].last, f[2]) >= 0}},
                         n - 1)

\* the weight of a shortest path from start to each vertex, -1 where there is
\* no path
dijShortest ==
    LET ps == dijPaths({[last |-> dijStart, seen |-> {dijStart}, weight |-> 0]},
                       dijV - 1)
    IN [x \in 1..dijV |->
          LET ws == {q.weight : q \in {r \in ps : r.last = x - 1}}
          IN IF ws = {} THEN -1 ELSE CHOOSE m \in ws : \A c \in ws : m <= c]

\* what dijkstra prints is right: a distance for every reachable vertex,
\* "unreachable" (dist[v] == INT_MAX) for every other
dijReportRight ==
    LET s == dijShortest
    IN \A x \in 1..dijV :
          IF s[x] < 0 THEN dist[x] = INT_MAX
          ELSE dist[x] = s[x] /\ dist[x] # INT_MAX

\* every shortest distance is below INT_MAX, and no sum of a shortest distance
\* and the weight of an edge at that vertex is above it
dijFitsInt ==
    LET s == dijShortest
    IN \A x \in 1..dijV : s[x] >= 0 =>
          /\ s[x] < INT_MAX
          /\ \A k \in 1..Len(dijAdjList[x]) : s[x] + dijAdjList[x][k][2] <= INT_MAX

\* C18 as claimed: for every graph with non-negative weights and every start,
\* dijkstra returns (it does not abort) and reports the weight of a shortest
\* path for every reachable vertex and INT_MAX for every unreachable one.
C18_ShortestPaths ==
    /\ dijPc # "aborted"
    /\ dijPc = "done" => dijReportRight

\* C18 amended: the same for the graphs in which every shortest distance is
\* below INT_MAX and every sum of a shortest distance and the weight of an edge
\* at that vertex is at most INT_MAX; and dijkstra terminates on them.
C18_ShortestPathsWithinInt ==
    /\ [](dijFitsInt => (dijPc # "aborted" /\ (dijPc = "done" => dijReportRight)))
    /\ (dijFitsInt => <>(dijPc = "done"))

\* a path of two edges beats the direct edge
C18_Witness ==
    /\ dijPc = "done" /\ dijFitsInt /\ dijStart = 0
    /\ \E x \in 2..dijV : \E k \in 1..Len(dijAdjList[1]) :
          /\ dijAdjList[1][k][1] = x - 1
          /\ dist[x] < dijAdjList[1][k][2]

-----------------------------------------------------------------------------
(* breadth-first search: Graph(V), addEdge (directed), BFS(start); vertices *)
(* are 0..V-1, vectors are indexed from 1 (vertex v at v + 1)               *)

\* the elements of a set of vertices as a list, smallest first
RECURSIVE bfsAscending(_)
bfsAscending(S) ==
    IF S = {} THEN <<>>
    ELSE LET m == CHOOSE x \in S : \A y \in S : x <= y
         IN <<m>> \o bfsAscending(S \ {m})

\* vector<bool> visited(V, false); visited[start] = true;
bfsNoneVisited(start) == [x \in 1..bfsV |-> FALSE]
bfsInitialVisited(start) == [x \in 1..bfsV |-> x = start + 1]

\* Graph g(V); g.addEdge(v, w) for any set of edges, self-loops and cycles
\* included; g.BFS(0) as in main: visited, q.push(start)
bfsInit ==
    /\ \E nb \in [1..bfsV -> SUBSET (0..bfsV-1)] :
         bfsAdjList = [x \in 1..bfsV |-> bfsAscending(nb[x])]
    /\ bfsStart = 0
    /\ visited = bfsInitialVisited(bfsStart)
    /\ bfsQ = <<bfsStart>>
    /\ bfsOut = <<>>
    /\ bfsPc = "run"
    /\ Pinned({"bfs"})

\* for (int adj : adjList[v]) if (!visited[adj]) { visited[adj] = true; q.push(adj); }
\* from the k-th neighbour on
RECURSIVE bfsPushNeighbours(_, _, _, _)
bfsPushNeighbours(adj, vis, queue, k) ==
    IF k > Len(adj) THEN [visited |-> vis, q |-> queue]
    ELSE IF ~vis[adj[k] + 1]
      THEN bfsPushNeighbours(adj, [vis EXCEPT ![adj[k] + 1] = TRUE],
                             Append(queue, adj[k]), k + 1)
      ELSE bfsPushNeighbours(adj, vis, queue, k + 1)

\* one iteration of while (!q.empty()): v = q.front(); q.pop(); cout << v; ...
bfsVisit ==
    /\ bfsPc = "run"
    /\ bfsQ # <<>>
    /\ LET v == Head(bfsQ)
           r == bfsPushNeighbours(bfsAdjList[v + 1], visited, Tail(bfsQ), 1)
       IN /\ bfsOut' = Append(bfsOut, v)
          /\ visited' = r.visited
          /\ bfsQ' = r.q
    /\ UNCHANGED <<bfsAdjList, bfsStart, bfsPc>>
    /\ UNCHANGED bfsOthers

\* the loop ends on the empty queue and BFS returns
bfsReturn ==
    /\ bfsPc = "run"
    /\ bfsQ = <<>>
    /\ bfsPc' = "done"
    /\ UNCHANGED <<bfsAdjList, bfsStart, visited, bfsQ, bfsOut>>
    /\ UNCHANGED bfsOthers

bfsNext ==
    \/ bfsVisit
    \/ bfsReturn

\* BFS is sequential code: it keeps running until it returns
FairSpecBfs == bfsInit /\ [][bfsNext]_vars /\ WF_vars(bfsNext)

\* the vertices at hop distance n from start: those with an edge from a vertex
\* at distance n - 1 that are at no smaller distance
RECURSIVE bfsWithin(_)
bfsWithin(n) ==
    IF n = 0 THEN {bfsStart}
    ELSE LET S == bfsWithin(n - 1)
         IN S \cup {w \in 0..bfsV-1 :
                      \E v \in S : \E k \in 1..Len(bfsAdjList[v + 1]) :
                         bfsAdjList[v + 1][k] = w}

bfsReachable == bfsWithin(bfsV - 1)

bfsHops(v) == CHOOSE n \in 0..bfsV-1 :
                 v \in bfsWithin(n) /\ (n > 0 => v \notin bfsWithin(n - 1))

-----------------------------------------------------------------------------
(* Kruskal's algorithm: Graph(V, E), addEdge, find, Union, kruskal; an edge *)
(* is <<weight, u, v>>, arrays are indexed from 1 (vertex v at v + 1)       *)

kruWeights == {1, 2}

\* the pairs of vertices u < v
kruPairs == {p \in (0..kruV-1) \X (0..kruV-1) : p[1] < p[2]}

\* edges after addEdge(u, v, w[u, v]), that is edges.push_back({weight, {u, v}}),
\* for the pairs u < v in ascending order; w[u, v] = 0: no edge
kruAddEdges(w) ==
    SelectSeq([n \in 1..kruV * kruV |->
                 LET u == (n - 1) \div kruV
                     v == (n - 1) % kruV
                 IN <<IF u < v THEN w[<<u, v>>] ELSE 0, u, v>>],
              LAMBDA e : e[1] # 0)

\* Graph g(V, E); g.addEdge(...); g.kruskal() is about to run
kruInit ==
    /\ \E w \in [kruPairs -> kruWeights \cup {0}] :
         edges = kruAddEdges(w)
    /\ parent = [x \in 1..kruV |-> 0]
    /\ rank = [x \in 1..kruV |-> 0]
    /\ mst = <<>>
    /\ kruK = 0
    /\ kruPc = "start"
    /\ Pinned({"kru"})

\* operator< of pair<int, pair<int, int>>
kruLess(a, b) ==
    \/ a[1] < b[1]
    \/ a[1] = b[1] /\ a[2] < b[2]
    \/ a[1] = b[1] /\ a[2] = b[2] /\ a[3] < b[3]

\* sort(edges.begin(), edges.end())
kruUnsorted(es) == es
RECURSIVE kruSorted(_)
kruSorted(es) ==
    IF es = <<>> THEN <<>>
    ELSE LET m == CHOOSE i \in 1..Len(es) : \A j \in 1..Len(es) : ~kruLess(es[j], es[i])
         IN <<es[m]>> \o kruSorted(SubSeq(es, 1, m - 1) \o SubSeq(es, m + 1, Len(es)))

\* for (i < V) { parent[i] = i; rank[i] = 0; } sort(edges)
kruStart ==
    /\ kruPc = "start"
    /\ parent' = [x \in 1..kruV |-> x - 1]
    /\ rank' = [x \in 1..kruV |-> 0]
    /\ edges' = kruSorted(edges)
    /\ kruPc' = "loop"
    /\ UNCHANGED <<mst, kruK>>
    /\ UNCHANGED kruOthers

\* find with path compression: the root of i and the parent array afterwards
RECURSIVE find(_, _)
find(par, i) ==
    IF par[i + 1] = i THEN [ret |-> i, parent |-> par]
    ELSE LET r == find(par, par[i + 1])
         IN [ret |-> r.ret, parent |-> [r.parent EXCEPT ![i + 1] = r.ret]]

\* Union by rank: the parent and rank arrays afterwards
Union(par, rk, x, y) ==
    LET fx == find(par, x)
        fy == find(fx.parent, y)
        xroot == fx.ret
        yroot == fy.ret
        p == fy.parent
    IN IF xroot = yroot THEN [parent |-> p, rank |-> rk]
       ELSE IF rk[xroot + 1] < rk[yroot + 1]
              THEN [parent |-> [p EXCEPT ![xroot + 1] = yroot], rank |-> rk]
       ELSE IF rk[xroot + 1] > rk[yroot + 1]
              THEN [parent |-> [p EXCEPT ![yroot + 1] = xroot], rank |-> rk]
       ELSE [parent |-> [p EXCEPT ![yroot + 1] = xroot],
             rank |-> [rk EXCEPT ![xroot + 1] = @ + 1]]

\* one iteration of for (auto& edge : edges)
kruEdge ==
    /\ kruPc = "loop"
    /\ kruK < Len(edges)
    /\ LET edge == edges[kruK + 1]
           u == edge[2]
           v == edge[3]
           fu == find(parent, u)
           fv == find(fu.parent, v)
       IN IF fu.ret # fv.ret
            THEN LET un == Union(fv.parent, rank, u, v)
                 IN /\ mst' = Append(mst, edge)
                    /\ parent' = un.parent
                    /\ rank' = un.rank
            ELSE /\ parent' = fv.parent
                 /\ UNCHANGED <<mst, rank>>
    /\ kruK' = kruK + 1
    /\ UNCHANGED <<edges, kruPc>>
    /\ UNCHANGED kruOthers

\* the loop is over: "Edges in MST:" and the edges of mst are printed
kruPrint ==
    /\ kruPc = "loop"
    /\ kruK = Len(edges)
    /\ kruPc' = "done"
    /\ UNCHANGED <<edges, parent, rank, mst, kruK>>
    /\ UNCHANGED kruOthers

kruNext ==
    \/ kruStart
    \/ kruEdge
    \/ kruPrint

SpecKru == kruInit /\ [][kruNext]_vars

\* the vertices joined to vertex a by the edges es[i], i in T, over paths of
\* at most n edges
RECURSIVE kruJoined(_, _, _, _)
kruJoined(es, T, a, n) ==
    IF n = 0 THEN {a}
    ELSE LET S == kruJoined(es, T, a, n - 1)
         IN S \cup {x \in 0..kruV-1 : \E i \in T :
                      \/ es[i][2] \in S /\ es[i][3] = x
                      \/ es[i][3] \in S /\ es[i][2] = x}

kruSpans(es, T) == kruJoined(es, T, 0, kruV - 1) = 0..kruV-1

\* no cycle: without any one of its edges, the ends of that edge are apart
kruAcyclic(es, T) ==
    \A i \in T : es[i][3] \notin kruJoined(es, T \ {i}, es[i][2], kruV - 1)

RECURSIVE kruWeight(_, _)
kruWeight(es, T) ==
    IF T = {} THEN 0
    ELSE LET i == CHOOSE j \in T : TRUE
         IN es[i][1] + kruWeight(es, T \ {i})

kruConnected == kruSpans(edges, 1..Len(edges))

\* the spanning trees of the graph, as sets of indices into edges
kruSpanningTrees ==
    {T \in SUBSET (1..Len(edges)) :
       Cardinality(T) = kruV - 1 /\ kruSpans(edges, T)}

\* C20: for every connected graph, kruskal prints V - 1 edges of the graph
\* that have no cycle, connect all vertices, and weigh no more than any
\* spanning tree of the graph.
C20_MinimumSpanningTree ==
    (kruPc = "done" /\ kruConnected) =>
       /\ Len(mst) = kruV - 1
       /\ \A i \in 1..Len(mst) : \E j \in 1..Len(edges) : mst[i] = edges[j]
       /\ kruAcyclic(mst, 1..Len(mst))
       /\ kruSpans(mst, 1..Len(mst))
       /\ \A T \in kruSpanningTrees :
             kruWeight(mst, 1..Len(mst)) <= kruWeight(edges, T)

\* kruskal has finished on a connected graph where it had to pass over an edge
\* that closes a cycle and to take a heavier edge after it
C20_Witness ==
    /\ kruPc = "done" /\ kruConnected
    /\ Len(edges) > kruV - 1
    /\ \E k \in 1..Len(edges) :
          /\ \A i \in 1..Len(mst) : mst[i] # edges[k]
          /\ kruLess(edges[k], mst[Len(mst)])

-----------------------------------------------------------------------------
(* the Qt task manager: the slots of TaskManagerWindow and what the user    *)
(* does to the widgets; tasks is a function from the IDs in the map         *)

qtDescriptions == {"", "a", "b"}

\* TaskManagerWindow::TaskManagerWindow: nextTaskID(1), empty widgets
qtInit ==
    /\ qtTasks = <<>>
    /\ qtNextTaskID = 1
    /\ taskInput = ""
    /\ taskListWidget = <<>>
    /\ currentRow = -1
    /\ Pinned({"qt"})

\* the user edits the input field
qtEdit ==
    /\ \E d \in qtDescriptions : taskInput' = d
    /\ taskInput' # taskInput
    /\ UNCHANGED <<qtTasks, qtNextTaskID, taskListWidget, currentRow>>
    /\ UNCHANGED qtOthers

\* the user clicks a row of the list
qtSelect ==
    /\ \E r \in 0..Len(taskListWidget) - 1 : currentRow' = r
    /\ currentRow' # currentRow
    /\ UNCHANGED <<qtTasks, qtNextTaskID, taskInput, taskListWidget>>
    /\ UNCHANGED qtOthers

\* QString taskText = description + " - Pending" (or " - Completed")
qtTaskText(description, status) == <<description, " - ", status>>

\* Task::getStatus
getStatus(task) == IF task.isCompleted THEN "Completed" ELSE "Pending"

\* taskListWidget->addItem(taskText): a new last row
qtInsertFirst(rows, text) == <<text>> \o rows
addItem(rows, text) == Append(rows, text)

\* taskListWidget->takeItem(row): the row is removed; the current row stays at
\* the same position, or moves up when the last row was taken
takeItem(rows, row) == SubSeq(rows, 1, row) \o SubSeq(rows, row + 2, Len(rows))

\* auto it = tasks.begin(); advance(it, currentRow): the key it points to
qtKeyAt(m, row) ==
    CHOOSE k \in DOMAIN m : Cardinality({j \in DOMAIN m : j < k}) = row

\* addTask
qtAddTask ==
    /\ qtNextTaskID <= qtMaxID
    /\ IF taskInput = ""
         THEN UNCHANGED <<qtTasks, qtNextTaskID, taskInput, taskListWidget>>
         ELSE /\ qtTasks' = [k \in DOMAIN qtTasks \cup {qtNextTaskID} |->
                               IF k = qtNextTaskID
                                 THEN [description |-> taskInput, isCompleted |-> FALSE]
                                 ELSE qtTasks[k]]
              /\ taskListWidget' = addItem(taskListWidget, qtTaskText(taskInput, "Pending"))
              /\ taskInput' = ""
              /\ qtNextTaskID' = qtNextTaskID + 1
    /\ UNCHANGED currentRow
    /\ UNCHANGED qtOthers

\* deleteTask
qtDeleteTask ==
    /\ IF currentRow >= 0
         THEN /\ taskListWidget' = takeItem(taskListWidget, currentRow)
              /\ currentRow' = IF currentRow < Len(taskListWidget) - 1
                                 THEN currentRow ELSE Len(taskListWidget) - 2
              /\ qtTasks' = [k \in DOMAIN qtTasks \ {qtKeyAt(qtTasks, currentRow)} |->
                               qtTasks[k]]
         ELSE UNCHANGED <<qtTasks, taskListWidget, currentRow>>
    /\ UNCHANGED <<qtNextTaskID, taskInput>>
    /\ UNCHANGED qtOthers

\* markTaskAsCompleted
qtMarkTaskAsCompleted ==
    /\ IF currentRow >= 0
         THEN LET k == qtKeyAt(qtTasks, currentRow) IN
                /\ qtTasks' = [qtTasks EXCEPT ![k].isCompleted = TRUE]
                /\ taskListWidget' = [taskListWidget EXCEPT ![currentRow + 1] =
                                        qtTaskText(qtTasks[k].description, "Completed")]
         ELSE UNCHANGED <<qtTasks, taskListWidget>>
    /\ UNCHANGED <<qtNextTaskID, taskInput, currentRow>>
    /\ UNCHANGED qtOthers

qtNext ==
    \/ qtEdit
    \/ qtSelect
    \/ qtAddTask
    \/ qtDeleteTask
    \/ qtMarkTaskAsCompleted

SpecQt == qtInit /\ [][qtNext]_vars

\* the widget and the map agree: as many rows as tasks, and row i shows the
\* description and status of the i-th task in ascending ID order
qtAgree ==
    /\ Len(taskListWidget) = Cardinality(DOMAIN qtTasks)
    /\ \A r \in 0..Len(taskListWidget) - 1 :
          LET task == qtTasks[qtKeyAt(qtTasks, r)]
          IN taskListWidget[r + 1] = qtTaskText(task.description, getStatus(task))

\* C21: after any sequence of addTask, deleteTask and markTaskAsCompleted the
\* list widget and the task map agree, row by row in ascending ID order; and
\* addTask with an empty description changes neither.
C21_WidgetMatchesMap ==
    /\ []qtAgree
    /\ [][(qtAddTask /\ taskInput = "") =>
            (qtTasks' = qtTasks /\ taskListWidget' = taskListWidget)]_vars

\* a task in the middle was deleted and the row after it completed
C21_Witness ==
    /\ DOMAIN qtTasks = {1, 3}
    /\ qtTasks[3].isCompleted /\ ~qtTasks[1].isCompleted
    /\ Len(taskListWidget) = 2
    /\ qtTasks[1].description # qtTasks[3].description

-----------------------------------------------------------------------------
(* parallelMap: the index ranges of the worker threads                      *)

\* the elements of output that mapChunk(start, end, index) writes
pmWrites(th) == {th.index + i - th.start : i \in th.start..(th.end - 1)}

\* the indices of input that mapChunk(start, end, index) reads
pmRange(th) == th.start..(th.end - 1)

\* C22: once the threads are created, their ranges [start, end) are pairwise
\* disjoint and (with at least one thread) cover exactly 0..input.size()-1; the
\* elements two threads write are disjoint and inside output; and every element
\* of output that changes is one its writer's range assigns.
C22_DisjointCover ==
    /\ [](pmPc \in {"join", "returned"} =>
            /\ \A s, t \in 1..Len(pmThreads) :
                  s # t => /\ pmRange(pmThreads[s]) \cap pmRange(pmThreads[t]) = {}
                           /\ pmWrites(pmThreads[s]) \cap pmWrites(pmThreads[t]) = {}
            /\ \A t \in 1..Len(pmThreads) :
                  pmWrites(pmThreads[t]) \subseteq 0..(Len(pmOutput) - 1)
            /\ pmChunk.numThreads >= 1 =>
                  UNION {pmRange(pmThreads[t]) : t \in 1..Len(pmThreads)}
                    = 0..(Len(pmInput) - 1))
    /\ [][\A j \in 1..Len(pmOutput) :
            pmOutput'[j] # pmOutput[j] =>
               \E t \in 1..Len(pmThreads) :
                  /\ j - 1 \in pmWrites(pmThreads[t])
                  /\ pmThreads'[t].i = pmThreads[t].i + 1]_vars

\* three threads on four elements: the last range takes the remainder
C22_Witness ==
    /\ pmPc = "returned"
    /\ Len(pmInput) = 4 /\ Len(pmThreads) = 3
    /\ pmRange(pmThreads[3]) = {2, 3}
    /\ \A j \in 1..4 : pmOutput[j] # 0

\* C23: with an empty input vector, or a computed thread count of 0,
\* parallelMap does not trap on a division by zero and, once returned, has
\* started no thread and left output untouched.
C23_EmptyInputReturns ==
    pmMin(Len(pmInput), pmHw) = 0 =>
       /\ pmPc # "crashed"
       /\ pmPc = "returned" =>
            /\ pmThreads = <<>>
            /\ pmOutput = [i \in 1..Len(pmInput) |-> 0]

-----------------------------------------------------------------------------
(* the meal builder: MealDirector with a VeggieMealBuilder and a            *)
(* NonVeggieMealBuilder, setBuilder and prepareMeal called in any order     *)

mbBuilders == {"veggie", "nonVeggie"}

\* MealDirector director; VeggieMealBuilder veggieBuilder; NonVeggieMealBuilder nonVeggieBuilder;
mbInit == mbIdle /\ Pinned({"mb"})

\* buildBread, buildProtein, buildDrink of the two builders
buildBread(b, meal) ==
    [meal EXCEPT !.bread = IF b = "veggie" THEN "Whole Wheat" ELSE "White"]
buildProtein(b, meal) ==
    [meal EXCEPT !.protein = IF b = "veggie" THEN "Tofu" ELSE "Chicken"]
buildDrink(b, meal) ==
    [meal EXCEPT !.drink = IF b = "veggie" THEN "Orange Juice" ELSE "Coke"]

\* buildCondiments: meal.condiments.push_back(...) for each condiment
buildCondiments(b, meal) ==
    [meal EXCEPT !.condiments =
       @ \o (IF b = "veggie" THEN <<"Lettuce", "Tomato", "Avocado">>
                             ELSE <<"Lettuce", "Mustard">>)]

\* director.setBuilder(&veggieBuilder) or (&nonVeggieBuilder)
setBuilder ==
    /\ \E b \in mbBuilders : builder' = b
    /\ builder' # builder
    /\ UNCHANGED <<mbMeal, mbReturned>>
    /\ UNCHANGED mbOthers

\* director.prepareMeal(): the four build steps on the builder's meal, then
\* getMeal returns a copy of it
prepareMeal ==
    /\ builder # "none"
    /\ Len(mbReturned) < mbMaxCalls
    /\ LET meal == buildDrink(builder,
                     buildCondiments(builder,
                       buildProtein(builder,
                         buildBread(builder, mbMeal[builder]))))
       IN /\ mbMeal' = [mbMeal EXCEPT ![builder] = meal]
          /\ mbReturned' = Append(mbReturned, [builder |-> builder, meal |-> meal])
    /\ UNCHANGED builder
    /\ UNCHANGED mbOthers

mbNext ==
    \/ setBuilder
    \/ prepareMeal

SpecMb == mbInit /\ [][mbNext]_vars

\* C25: prepareMeal is repeatable: two calls with the same builder return the
\* same Meal (same bread, protein and drink, condiment list no longer).
C25_PrepareMealRepeatable ==
    \A i, j \in 1..Len(mbReturned) :
       mbReturned[i].builder = mbReturned[j].builder =>
          mbReturned[i].meal = mbReturned[j].meal

====
